---- MODULE Spec2Model ----
(***************************************************************************)
(* The load balancer of src/src/load_balancer.py as a state machine.       *)
(*                                                                         *)
(* The balancer runs on one asyncio event loop: the code between two       *)
(* awaits that suspend is one atomic step.  A forwarded request suspends   *)
(* at session.request (until the response headers arrive) and at           *)
(* response.json() (until the body is read); a health probe suspends at    *)
(* session.get.  init_session never suspends once the session exists.      *)
(***************************************************************************)
EXTENDS Integers, Sequences, FiniteSets, TLC

\* ---------------------------------------------------------------- bounds
MaxBackends == 2
MaxClients == 2
MaxProbers == 1
MaxOut == 4
MaxCallOut == 4
MaxSeqBackends == 3
MaxForwards == 6
MaxLatForwards == 12
TickStep == 15
StartTime == 100
MaxTicks == 3
PortSlack == 2
MaxChildren == 2
MaxInterrupts == 2
MaxModels == 2
MaxRequests == 4
MaxPipelineRequests == 1
MaxProps == 2
MaxSrvRequests == 2
MaxWorkers == 1
MaxAddrs == 2
MaxThreads == 2
MaxTasks == 2
max_retries == 2
MaxSrvClock == 3
WaitStep == 60

\* ------------------------------------------------------- program constants
\* mark_error: "if self.error_count >= 3"
ErrorLimit == 3
\* add_response_time: "if len(self.response_times) > 10"
MaxResponseTimes == 10
\* health_check_all: "if current_time - backend.last_check > 30"
CheckInterval == 30
MaxAllowedBackends == 30
PortLow == 8070
PortHigh == 8100
DefaultBasePort == 8070
DefaultNumBackends == 5
SpawnPause == 2
StopWait == 5
DefaultMaxTokens == 10000
StructuredTokenCap == 1000
\* aiohttp.ClientTimeout(total=120)
TotalTimeout == 120

\* HTTP statuses a worker answers with: 200, and 500 standing for any non-200
WorkerStatuses == {200, 500}

VARIABLES
    backends,       \* LoadBalancer.backends: sequence of Backend records
    current_index,  \* LoadBalancer.current_index
    now,            \* time.time()
    req,            \* the inbound forwarded requests (coroutines of forward_request)
    hc,             \* the inbound probe-triggering requests (health_check_all)
    n_out,          \* outbound requests issued so far
    ev,             \* what the last step did: calls made, response received
    log,            \* the events so far (recorded by the scenario specifications)
    cli,            \* one run of a command line: arguments, exit code, ports used
    sup,            \* the supervisor (BackendManager) and its child processes
    worker,         \* one worker (backend_server): resident model, request in hand
    gram,           \* one run of the schema-to-grammar compiler and a derivation
    srv,            \* the threaded server (server.py) and its clients
    api             \* the threaded API (LlamaAPI): queue, worker threads, models

vars == <<backends, current_index, now, req, hc, n_out, ev, log, cli, sup, worker,
          gram, srv, api>>

\* The balancer's part of the state
lbvars == <<backends, current_index, now, req, hc, n_out, ev, log>>

Clients == 1..MaxClients
Probers == 1..MaxProbers

\* ------------------------------------------------------------ class Backend
\* Backend.__init__
NewBackend ==
    [is_healthy |-> TRUE, last_check |-> 0, response_times |-> <<>>, error_count |-> 0]

\* Faulty variant of add_response_time: evicts the newest entry, not the oldest
add_response_time_drop_newest(b, response_time) ==
    LET appended == Append(b.response_times, response_time)
    IN  [b EXCEPT !.response_times =
            IF Len(appended) > MaxResponseTimes
            THEN SubSeq(appended, 1, Len(appended) - 1)
            ELSE appended]

\* Backend.add_response_time
add_response_time(b, response_time) ==
    LET appended == Append(b.response_times, response_time)
    IN  [b EXCEPT !.response_times =
            IF Len(appended) > MaxResponseTimes THEN Tail(appended) ELSE appended]

\* Faulty variant of mark_error: demotes only above the limit
mark_error_late(b) ==
    LET n == b.error_count + 1
    IN  [b EXCEPT !.error_count = n,
                  !.is_healthy = IF n > ErrorLimit THEN FALSE ELSE @]

\* Faulty variant of mark_error: counts nothing and demotes nothing
mark_error_forgets(b) == b

\* Backend.mark_error
mark_error(b) ==
    LET n == b.error_count + 1
    IN  [b EXCEPT !.error_count = n,
                  !.is_healthy = IF n >= ErrorLimit THEN FALSE ELSE @]

\* Faulty variant of mark_success: does not reset the error count
mark_success_keep_count(b) ==
    [b EXCEPT !.is_healthy = TRUE]

\* Backend.mark_success
mark_success(b) ==
    [b EXCEPT !.error_count = 0, !.is_healthy = TRUE]

\* ------------------------------------------------------- class LoadBalancer
\* healthy_backends = [b for b in self.backends if b.is_healthy], as indices
healthy_backends(bs) ==
    SelectSeq([i \in 1..Len(bs) |-> i], LAMBDA i : bs[i].is_healthy)

\* Faulty variant of get_next_backend: the cursor is not advanced
get_next_backend_stuck(bs, ci) ==
    LET healthy == healthy_backends(bs)
    IN  IF Len(healthy) = 0
        THEN [backend |-> 0, index |-> ci]
        ELSE [backend |-> healthy[(ci % Len(healthy)) + 1], index |-> ci]

\* Faulty variant of get_next_backend: with no healthy backend it falls back
\* to the registered list
get_next_backend_fallback(bs, ci) ==
    LET healthy == healthy_backends(bs)
    IN  IF Len(healthy) = 0
        THEN [backend |-> (ci % Len(bs)) + 1, index |-> (ci + 1) % Len(bs)]
        ELSE [backend |-> healthy[(ci % Len(healthy)) + 1],
              index |-> (ci + 1) % Len(healthy)]

\* LoadBalancer.get_next_backend: the backend returned (0 for None) and the
\* value of current_index after the call
get_next_backend(bs, ci) ==
    LET healthy == healthy_backends(bs)
    IN  IF Len(healthy) = 0
        THEN [backend |-> 0, index |-> ci]
        ELSE [backend |-> healthy[(ci % Len(healthy)) + 1],
              index |-> (ci + 1) % Len(healthy)]

\* One call of get_next_backend as it is recorded in ev.sels
Selection(bs, ci) ==
    [b |-> get_next_backend(bs, ci).backend,
     cursor |-> ci,
     healthy |-> {i \in 1..Len(bs) : bs[i].is_healthy}]

\* sum(response_times)
RECURSIVE SumSeq(_)
SumSeq(q) == IF q = <<>> THEN 0 ELSE Head(q) + SumSeq(Tail(q))

\* round(get_average_response_time(), 3), in thousandths of a second.  With at
\* most MaxResponseTimes whole-second samples the quotient is never halfway
\* between two thousandths, so rounding to nearest is what round() returns.
avg_response_time(b) ==
    LET n == Len(b.response_times)
    IN  IF n = 0 THEN 0 ELSE (2000 * SumSeq(b.response_times) + n) \div (2 * n)

\* Faulty variant of get_status: healthy_backends counts every backend
get_status_counts_all(bs) ==
    [total_backends |-> Len(bs),
     healthy_backends |-> Len(bs),
     backends |-> [i \in 1..Len(bs) |->
                     [url |-> i, healthy |-> bs[i].is_healthy,
                      error_count |-> bs[i].error_count,
                      avg_response_time |-> avg_response_time(bs[i]),
                      last_check |-> bs[i].last_check]]]

\* LoadBalancer.get_status; the url of a backend is its place of registration
get_status(bs) ==
    [total_backends |-> Len(bs),
     healthy_backends |-> Len(healthy_backends(bs)),
     backends |-> [i \in 1..Len(bs) |->
                     [url |-> i, healthy |-> bs[i].is_healthy,
                      error_count |-> bs[i].error_count,
                      avg_response_time |-> avg_response_time(bs[i]),
                      last_check |-> bs[i].last_check]]]

\* ------------------------------------------------------------------ events
NoReply == [total_backends |-> 0, healthy_backends |-> 0, backends |-> <<>>]

NoEvent ==
    [op |-> "start", who |-> 0, b |-> 0, status |-> 0, rt |-> -1,
     sels |-> <<>>, sent |-> {}, result |-> 0, reply |-> NoReply]

IdleReq == [pc |-> "idle", backend |-> 0, start |-> 0, status |-> 0, tries |-> 0]
IdleHc == [pc |-> "idle", pending |-> {}, start |-> 0]

\* create_load_balancer / LoadBalancer.__init__ with n backends
\* No command line has been run
IdleCli ==
    [pc |-> "off", prog |-> "none", argv_len |-> 0, arg_base |-> 0, arg_n |-> 0,
     dir_ok |-> FALSE, base_port |-> 0, num_backends |-> 0, stage |-> "none",
     code |-> 0, ports |-> {}]

\* No supervisor has been started
IdleSup ==
    [pc |-> "off", num_backends |-> 0, i |-> 0, processes |-> <<>>, timer |-> 0,
     interrupts |-> 0, stopped |-> FALSE, uncaught |-> FALSE]

\* JSON values the engine's text can stand for, and texts.  A text is raw
\* (not JSON, its characters in s) or the serialisation of the JSON value v.
JNull == [kind |-> "null", error |-> "", content |-> ""]
JObject == [kind |-> "object", error |-> "", content |-> ""]
RawText(s) == [tag |-> "raw", s |-> s, v |-> JNull]
NoText == RawText("")

\* No schema, and no grammar
NoSchema ==
    [type |-> "absent", has_enum |-> FALSE, enum |-> <<>>, items |-> <<>>,
     properties |-> <<>>, one_of |-> FALSE]
NoGrammar ==
    [root |-> [form |-> "none", members |-> <<>>, item |-> [name |-> "none", alt |-> <<>>]],
     defs |-> <<>>]

NoRequest ==
    [endpoint |-> "none", model |-> 0, rf |-> "none", schema |-> NoSchema,
     max_tokens |-> 0]
NoResponse == [status |-> 0, content |-> NoText, has_parsed |-> FALSE, parsed |-> JNull]

\* No worker has been started
IdleWorker ==
    [pc |-> "off", llama_model |-> 0, current_model_path |-> 0, resident |-> {},
     loads |-> 0, load_failed |-> FALSE, history |-> <<>>, request |-> NoRequest,
     grammar |-> "none", compiled |-> NoGrammar, calls |-> <<>>,
     response |-> NoResponse]

\* A derived text: the keys in the order of the text and the value after each
\* key (an array at top level has its items in one value); and what json.loads
\* makes of a text
NoDerivation == [form |-> "none", keys |-> <<>>, values |-> <<>>]
NotLoaded == [ok |-> FALSE, top |-> "none", keys |-> <<>>, values |-> <<>>]

\* The compiler has not been run
IdleGram ==
    [pc |-> "off", schema |-> NoSchema, grammar |-> NoGrammar, text |-> NoDerivation,
     loaded |-> NotLoaded]

\* The threaded server: no client_id, no result; a request that has not arrived
NoClient == [addr |-> 0, t |-> 0]
NoResult == [kind |-> "none", owner |-> 0]
NoTask == [client_id |-> NoClient, owner |-> 0]
NewRequest ==
    [pc |-> "unborn", client_id |-> NoClient, wake |-> 0, retries |-> 0,
     status |-> 0, response |-> NoResult, outcomes |-> 0]

\* No threaded server has been started
IdleSrv ==
    [pc |-> "off", clock |-> 0, received |-> 0, reqs |-> <<>>, tasks |-> <<>>,
     threads |-> <<>>, pending_responses |-> {}, delivered |-> <<>>]

\* No LlamaAPI has been constructed
IdleApi ==
    [pc |-> "off", running |-> FALSE, tasks |-> <<>>, task_queue |-> <<>>,
     worker_threads |-> <<>>, loaded_models |-> {}, loads |-> <<>>]

\* create_load_balancer with n backends
LbInit(n) ==
    /\ backends = [i \in 1..n |-> NewBackend]
    /\ current_index = 0
    /\ now = StartTime
    /\ req = [r \in Clients |-> IdleReq]
    /\ hc = [p \in Probers |-> IdleHc]
    /\ n_out = 0
    /\ ev = NoEvent
    /\ log = <<>>

\* The balancer with n backends, on its own
InitWith(n) ==
    /\ LbInit(n)
    /\ cli = IdleCli
    /\ sup = IdleSup
    /\ worker = IdleWorker
    /\ gram = IdleGram
    /\ srv = IdleSrv
    /\ api = IdleApi

Init == \E n \in 1..MaxBackends : InitWith(n)

\* ------------------------------------------------------------ forward_request
\* forward_request up to its first suspension: select, 503 if none, else send.
\* An inbound request takes the lowest free slot (the slots are interchangeable).
Forward(r) ==
    /\ req[r].pc = "idle"
    /\ \A q \in 1..(r - 1) : req[q].pc # "idle"
    /\ LET sel == get_next_backend(backends, current_index)
       IN  /\ current_index' = sel.index
           /\ IF sel.backend = 0
              THEN /\ req' = [req EXCEPT ![r] = IdleReq]
                   /\ n_out' = n_out
                   /\ ev' = [NoEvent EXCEPT !.op = "forward", !.who = r,
                                !.sels = <<Selection(backends, current_index)>>,
                                !.result = 503]
              ELSE /\ req' = [req EXCEPT ![r] = [IdleReq EXCEPT !.pc = "sent",
                                !.backend = sel.backend, !.start = now, !.tries = 1]]
                   /\ n_out' = n_out + 1
                   /\ ev' = [NoEvent EXCEPT !.op = "forward", !.who = r,
                                !.sels = <<Selection(backends, current_index)>>,
                                !.sent = {sel.backend}]
    /\ UNCHANGED <<backends, now, hc>>

\* "async with self.session.request(...) as response": the headers arrive with
\* status st; the latency is recorded, then response.json() suspends
RecvResponse(r, st) ==
    /\ req[r].pc = "sent"
    /\ LET b == req[r].backend
           response_time == now - req[r].start
       IN  /\ backends' = [backends EXCEPT ![b] = add_response_time(@, response_time)]
           /\ ev' = [NoEvent EXCEPT !.op = "response", !.who = r, !.b = b,
                        !.status = st, !.rt = response_time]
    /\ req' = [req EXCEPT ![r].pc = "body", ![r].status = st]
    /\ UNCHANGED <<current_index, now, hc, n_out>>

\* Faulty variant of RecvJson: marks success whatever the status
RecvJsonMarksSuccess(r) ==
    /\ req[r].pc = "body"
    /\ LET b == req[r].backend
           st == req[r].status
       IN  /\ backends' = [backends EXCEPT ![b] = mark_success(@)]
           /\ req' = [req EXCEPT ![r] = IdleReq]
           /\ ev' = [NoEvent EXCEPT !.op = "json", !.who = r, !.b = b,
                        !.status = st, !.result = st]
    /\ UNCHANGED <<current_index, now, hc, n_out>>

\* response.json() returned: mark by status and return (status, result); the
\* endpoint turns a non-200 status into an HTTPException of that status
RecvJson(r) ==
    /\ req[r].pc = "body"
    /\ LET b == req[r].backend
           st == req[r].status
       IN  /\ backends' = [backends EXCEPT ![b] =
                              IF st = 200 THEN mark_success(@) ELSE mark_error(@)]
           /\ req' = [req EXCEPT ![r] = IdleReq]
           /\ ev' = [NoEvent EXCEPT !.op = "json", !.who = r, !.b = b,
                        !.status = st, !.result = st]
    /\ UNCHANGED <<current_index, now, hc, n_out>>

\* "except Exception": mark_error, select other_backend, and if it is another
\* backend call forward_request again, which selects once more and sends; else
\* 502.  op names what was raised in the event of the step.
ExceptBranch(r, op) ==
    /\ req[r].pc \in {"sent", "body"}
    /\ LET b == req[r].backend
           marked == [backends EXCEPT ![b] = mark_error(@)]
           other == get_next_backend(marked, current_index)
           again == get_next_backend(marked, other.index)
       IN  /\ backends' = marked
           /\ IF other.backend # 0 /\ other.backend # b
              THEN /\ current_index' = again.index
                   /\ req' = [req EXCEPT ![r].pc = "sent", ![r].backend = again.backend,
                                         ![r].start = now, ![r].status = 0,
                                         ![r].tries = @ + 1]
                   /\ n_out' = n_out + 1
                   /\ ev' = [NoEvent EXCEPT !.op = op, !.who = r, !.b = b,
                                !.status = req[r].status,
                                !.sels = <<Selection(marked, current_index),
                                           Selection(marked, other.index)>>,
                                !.sent = {again.backend}]
              ELSE /\ current_index' = other.index
                   /\ req' = [req EXCEPT ![r] = IdleReq]
                   /\ n_out' = n_out
                   /\ ev' = [NoEvent EXCEPT !.op = op, !.who = r, !.b = b,
                                !.status = req[r].status,
                                !.sels = <<Selection(marked, current_index)>>,
                                !.result = 502]
    /\ UNCHANGED <<now, hc>>

\* session.request or response.json() raised: refused connection, reset, body
\* that is no JSON
RequestFails(r) == ExceptBranch(r, "fail")

\* ClientTimeout(total=120) has run out: asyncio.TimeoutError is raised inside
\* the try and caught by the same "except Exception"
RequestTimesOut(r) ==
    /\ now - req[r].start >= TotalTimeout
    /\ ExceptBranch(r, "timeout")

\* --------------------------------------------------------------- health checks
\* HealthCheckAll probing only backends last checked over a minute ago
HealthCheckAllLate(p) ==
    /\ hc[p].pc = "idle"
    /\ \A q \in 1..(p - 1) : hc[q].pc # "idle"
    /\ LET tasks == {i \in 1..Len(backends) :
                        now - backends[i].last_check > 2 * CheckInterval}
       IN  /\ hc' = [hc EXCEPT ![p] = [pc |-> "gather", pending |-> tasks, start |-> now]]
           /\ n_out' = n_out + Cardinality(tasks)
           /\ ev' = [NoEvent EXCEPT !.op = "health_check_all", !.who = p, !.sent = tasks]
    /\ UNCHANGED <<backends, current_index, now, req>>

\* health_check_all, called by root / status / v1_root: a probe is started for
\* every backend whose last_check is more than 30 s old
HealthCheckAll(p) ==
    /\ hc[p].pc = "idle"
    /\ \A q \in 1..(p - 1) : hc[q].pc # "idle"
    /\ LET tasks == {i \in 1..Len(backends) : now - backends[i].last_check > CheckInterval}
       IN  /\ hc' = [hc EXCEPT ![p] = [pc |-> "gather", pending |-> tasks, start |-> now]]
           /\ n_out' = n_out + Cardinality(tasks)
           /\ ev' = [NoEvent EXCEPT !.op = "health_check_all", !.who = p, !.sent = tasks]
    /\ UNCHANGED <<backends, current_index, now, req>>

\* health_check: the probe of backend b is answered with status st
ProbeResponse(p, b, st) ==
    /\ hc[p].pc = "gather"
    /\ b \in hc[p].pending
    /\ LET response_time == now - hc[p].start
           timed == add_response_time(backends[b], response_time)
       IN  /\ backends' = [backends EXCEPT ![b] =
                              IF st = 200
                              THEN [mark_success(timed) EXCEPT !.last_check = now]
                              ELSE mark_error(timed)]
           /\ ev' = [NoEvent EXCEPT !.op = "probe_response", !.who = p, !.b = b,
                        !.status = st, !.rt = response_time]
    /\ hc' = [hc EXCEPT ![p].pending = @ \ {b}]
    /\ UNCHANGED <<current_index, now, req, n_out>>

\* ProbeFails with the failed probe counted as a success
ProbeFailsMarksSuccess(p, b) ==
    /\ hc[p].pc = "gather"
    /\ b \in hc[p].pending
    /\ backends' = [backends EXCEPT ![b] = mark_success(@)]
    /\ ev' = [NoEvent EXCEPT !.op = "probe_fail", !.who = p, !.b = b]
    /\ hc' = [hc EXCEPT ![p].pending = @ \ {b}]
    /\ UNCHANGED <<current_index, now, req, n_out>>

\* health_check: the probe of backend b raised
ProbeFails(p, b) ==
    /\ hc[p].pc = "gather"
    /\ b \in hc[p].pending
    /\ backends' = [backends EXCEPT ![b] = mark_error(@)]
    /\ ev' = [NoEvent EXCEPT !.op = "probe_fail", !.who = p, !.b = b]
    /\ hc' = [hc EXCEPT ![p].pending = @ \ {b}]
    /\ UNCHANGED <<current_index, now, req, n_out>>

\* HcReturn without waiting for the probes
HcReturnEarly(p) ==
    /\ hc[p].pc = "gather"
    /\ hc' = [hc EXCEPT ![p] = IdleHc]
    /\ ev' = [NoEvent EXCEPT !.op = "hc_return", !.who = p, !.result = 200,
                 !.reply = get_status(backends)]
    /\ UNCHANGED <<backends, current_index, now, req, n_out>>

\* asyncio.gather returned: the endpoint answers with get_status()
HcReturn(p) ==
    /\ hc[p].pc = "gather"
    /\ hc[p].pending = {}
    /\ hc' = [hc EXCEPT ![p] = IdleHc]
    /\ ev' = [NoEvent EXCEPT !.op = "hc_return", !.who = p, !.result = 200,
                 !.reply = get_status(backends)]
    /\ UNCHANGED <<backends, current_index, now, req, n_out>>

\* time passes between two steps of the event loop
Tick ==
    /\ now' = now + TickStep
    /\ UNCHANGED <<backends, current_index, req, hc, n_out, ev>>

\* ------------------------------------------------------------ specifications
\* The balancer under concurrent clients: MaxClients forwarded requests and
\* MaxProbers probe-triggering requests interleave at their suspension points.
\* At most MaxOut outbound requests are issued, and no backend is failed
\* more than once beyond the error limit.
ErrorsBounded == \A i \in 1..Len(backends) : backends'[i].error_count <= ErrorLimit + 1

\* A step within the bounds of the concurrent specification
Bounded(A) ==
    /\ A
    /\ n_out' <= MaxOut
    /\ ErrorsBounded
    /\ UNCHANGED <<now, log, cli, sup, worker, gram, srv, api>>

Next ==
    \/ \E r \in Clients : Bounded(Forward(r))
    \/ \E r \in Clients, st \in WorkerStatuses : Bounded(RecvResponse(r, st))
    \/ \E r \in Clients : Bounded(RecvJson(r))
    \/ \E r \in Clients : Bounded(RequestFails(r))
    \/ \E p \in Probers : Bounded(HealthCheckAll(p))
    \/ \E p \in Probers, b \in 1..MaxBackends, st \in WorkerStatuses :
          Bounded(ProbeResponse(p, b, st))
    \/ \E p \in Probers, b \in 1..MaxBackends : Bounded(ProbeFails(p, b))
    \/ \E p \in Probers : Bounded(HcReturn(p))

Spec == Init /\ [][Next]_vars

\* The number of inbound forwarded requests the log holds
Forwards(l) == Len(SelectSeq(l, LAMBDA e : e.op = "forward"))

\* One client issuing up to MaxForwards forwarded requests one after the other,
\* with no probe in between; a backend either answers 200 or refuses the
\* connection; every event is recorded in the log.
SeqInit == \E n \in 1..MaxSeqBackends : InitWith(n)

\* A step of the sequential client, appended to the log; no time passes
Logged(A) ==
    /\ A
    /\ log' = Append(log, ev')
    /\ now' = now
    /\ UNCHANGED <<cli, sup, worker, gram, srv, api>>

SeqNext ==
    \/ Forwards(log) < MaxForwards /\ Logged(Forward(1))
    \/ Logged(RecvResponse(1, 200))
    \/ Logged(RecvJson(1))
    \/ req[1].pc = "sent" /\ Logged(RequestFails(1))

SeqSpec == SeqInit /\ [][SeqNext]_vars

\* One backend answering 200 to MaxLatForwards forwarded requests, each taking
\* no time or one tick; every event is recorded in the log.
LatInit == InitWith(1)

LatNext ==
    \/ Forwards(log) < MaxLatForwards /\ Logged(Forward(1))
    \/ Logged(RecvResponse(1, 200))
    \/ Logged(RecvJson(1))
    \/ /\ req[1].pc = "sent"
       /\ now = req[1].start
       /\ Tick
       /\ UNCHANGED <<log, cli, sup, worker, gram, srv, api>>

LatSpec == LatInit /\ [][LatNext]_vars

\* No request is being handled
Quiet ==
    /\ \A r \in Clients : req[r].pc = "idle"
    /\ \A p \in Probers : hc[p].pc = "idle"

\* Probe-triggering requests, the forwarded requests of one client and the
\* passing of time between requests, up to MaxTicks ticks and MaxOut outbound
\* requests.
ProbeInit == \E n \in 1..MaxBackends : InitWith(n)

\* A step that takes no time, within the bounds of the timed specification
Timed(A) ==
    /\ A
    /\ n_out' <= MaxOut
    /\ ErrorsBounded
    /\ UNCHANGED <<now, log, cli, sup, worker, gram, srv, api>>

ProbeNext ==
    \/ \E p \in Probers : Timed(HealthCheckAll(p))
    \/ \E p \in Probers, b \in 1..MaxBackends, st \in WorkerStatuses :
          Timed(ProbeResponse(p, b, st))
    \/ \E p \in Probers, b \in 1..MaxBackends : Timed(ProbeFails(p, b))
    \/ \E p \in Probers : Timed(HcReturn(p))
    \/ Timed(Forward(1))
    \/ \E st \in WorkerStatuses : Timed(RecvResponse(1, st))
    \/ Timed(RecvJson(1))
    \/ Timed(RequestFails(1))
    \/ /\ now < StartTime + MaxTicks * TickStep
       /\ Quiet
       /\ Tick
       /\ UNCHANGED <<log, cli, sup, worker, gram, srv, api>>

ProbeSpec == ProbeInit /\ [][ProbeNext]_vars

\* The forwarded requests of one client against backends that answer, refuse
\* or stay silent.  While an outbound request is outstanding time passes in
\* steps of WaitStep seconds until its deadline; an answer or a refusal comes
\* before the deadline.
TimeoutInit == \E n \in 1..MaxBackends : InitWith(n)

InTime == now - req[1].start < TotalTimeout

Wait ==
    /\ req[1].pc \in {"sent", "body"}
    /\ InTime
    /\ now' = now + WaitStep
    /\ UNCHANGED <<backends, current_index, req, hc, n_out, ev, log, cli, sup, worker,
                   gram, srv, api>>

TimeoutNext ==
    \/ Timed(Forward(1))
    \/ \E st \in WorkerStatuses : InTime /\ Timed(RecvResponse(1, st))
    \/ InTime /\ Timed(RecvJson(1))
    \/ InTime /\ Timed(RequestFails(1))
    \/ Timed(RequestTimesOut(1))
    \/ Wait

TimeoutSpec == TimeoutInit /\ [][TimeoutNext]_vars

\* One client calling forward_request again and again, with no probe and no
\* second request in between.  An attempt is answered with any status, or the
\* connection or the reading of the body fails.  A new call is started while
\* fewer than MaxCallOut outbound requests have been made; a call that has
\* started runs for as long as the code lets it.
CallInit == \E n \in 1..MaxSeqBackends : InitWith(n)

InCall(A) ==
    /\ A
    /\ UNCHANGED <<now, log, cli, sup, worker, gram, srv, api>>

\* The outbound attempt of the call comes to an end: a response, its body, or
\* an exception
AttemptCompletes ==
    \/ \E st \in WorkerStatuses : InCall(RecvResponse(1, st))
    \/ InCall(RecvJson(1))
    \/ InCall(RequestFails(1))

CallNext ==
    \/ n_out < MaxCallOut /\ InCall(Forward(1))
    \/ AttemptCompletes

\* Every outbound attempt completes: the session's total timeout ends an
\* attempt that gets no answer
CallSpec == CallInit /\ [][CallNext]_vars /\ WF_vars(AttemptCompletes)

\* ------------------------------------------------------- reading the log
\* The events that issued an outbound forwarded request, in order
Attempts(l) == SelectSeq(l, LAMBDA e : e.sent # {} /\ e.op \in {"forward", "fail"})

\* The backend an attempt event sent its request to
Target(e) == CHOOSE b \in e.sent : TRUE

\* The statuses the finished inbound requests were answered with, in order
Results(l) ==
    LET done == SelectSeq(l, LAMBDA e : e.result # 0)
    IN  [k \in 1..Len(done) |-> done[k].result]

\* The latencies recorded for backend b, in order
Recorded(l, b) ==
    LET got == SelectSeq(l, LAMBDA e : e.op = "response" /\ e.b = b)
    IN  [k \in 1..Len(got) |-> got[k].rt]

\* How often backend b is the target of the attempts att[i..j]
TimesSelected(att, i, j, b) == Cardinality({k \in i..j : Target(att[k]) = b})

\* A call of get_next_backend returned the healthy backend at position
\* cursor mod len(healthy) of the healthy ones in registration order, or None
\* when there is none
GoodSelection(s) ==
    IF s.healthy = {}
    THEN s.b = 0
    ELSE /\ s.b \in s.healthy
         /\ Cardinality({h \in s.healthy : h < s.b}) = s.cursor % Cardinality(s.healthy)

\* ------------------------------------------------------------------ claims

\* C1: get_next_backend never returns an unhealthy backend: it returns
\* healthy[cursor mod len(healthy)] of the healthy backends in registration
\* order; with three backends and forwards that all succeed the selection
\* sequence is A, B, C, A, B, C.
C1_RoundRobinOverHealthy ==
    /\ \A i \in 1..Len(log) : \A k \in 1..Len(log[i].sels) : GoodSelection(log[i].sels[k])
    /\ (Len(backends) = 3 /\ \A i \in 1..Len(log) : log[i].op # "fail")
         => LET att == Attempts(log)
            IN  \A k \in 1..Len(att) : Target(att[k]) = ((k - 1) % 3) + 1

C1_Witness ==
    /\ Len(backends) = 3
    /\ \A i \in 1..Len(log) : log[i].op # "fail"
    /\ Results(log) = <<200, 200, 200, 200, 200, 200>>
    /\ Len(Attempts(log)) = 6
    /\ Target(Attempts(log)[6]) = 3

\* C2: over a window of forwards in which the non-empty set of healthy backends
\* does not change, any two healthy backends are selected for a forward equally
\* often up to a difference of 1, also when forwards of the window fail.
C2_FairWithinOne ==
    LET att == Attempts(log)
        Healthy(k) == att[k].sels[Len(att[k].sels)].healthy
    IN  \A i \in 1..Len(att) : \A j \in i..Len(att) :
            (\A k \in i..j : Healthy(k) = Healthy(i))
              => \A a \in Healthy(i) : \A b \in Healthy(i) :
                    TimesSelected(att, i, j, a) - TimesSelected(att, i, j, b) <= 1

\* C3: forward_request called when no backend is healthy answers 503, issues no
\* outbound request and changes neither the cursor nor any backend.
C3_NoHealthyGives503 ==
    [][(ev'.op = "forward" /\ \A i \in 1..Len(backends) : ~backends[i].is_healthy)
          => /\ ev'.result = 503
             /\ ev'.sent = {}
             /\ n_out' = n_out
             /\ req'[ev'.who].pc = "idle"
             /\ current_index' = current_index
             /\ backends' = backends]_vars

C3_Witness ==
    /\ ev.op = "forward"
    /\ ev.result = 503
    /\ \A i \in 1..Len(backends) : ~backends[i].is_healthy /\ backends[i].error_count >= ErrorLimit

\* C4: in every reachable state a backend is healthy if and only if its
\* error_count is below 3.
C4_HealthyIffBelowLimit ==
    \A i \in 1..Len(backends) : backends[i].is_healthy <=> backends[i].error_count < 3

C4_Witness ==
    \E i \in 1..Len(backends) : \E j \in 1..Len(backends) :
        /\ ~backends[i].is_healthy
        /\ backends[i].error_count = 3
        /\ ev.op \in {"fail", "probe_fail", "json", "probe_response"}
        /\ ev.b = i
        /\ backends[j].is_healthy

\* C5: the latency list holds at most 10 entries, and exactly the most recent
\* min(n, 10) of the n recorded durations, in recording order.
C5_LatestTen ==
    LET rec == Recorded(log, 1)
        n == Len(rec)
        m == IF n < 10 THEN n ELSE 10
    IN  /\ Len(backends[1].response_times) <= 10
        /\ backends[1].response_times = SubSeq(rec, n - m + 1, n)

C5_Witness ==
    LET rec == Recorded(log, 1)
    IN  /\ Len(rec) = 12
        /\ rec[1] # rec[11]
        /\ rec[2] # rec[12]
        /\ rec[3] # rec[4]

\* C6: every outbound attempt (forward or probe) marks its own backend exactly
\* once, as success when the worker answered 200 and as error when it answered
\* another status or the attempt failed; no other backend is marked, and a
\* step that completes no attempt marks none.
Unmarked(i) ==
    /\ backends'[i].error_count = backends[i].error_count
    /\ backends'[i].is_healthy = backends[i].is_healthy

C6_MarkedOnce ==
    [][IF ev'.op \in {"json", "probe_response", "fail", "probe_fail"}
       THEN /\ IF ev'.op \in {"json", "probe_response"} /\ ev'.status = 200
               THEN /\ backends'[ev'.b].error_count = 0
                    /\ backends'[ev'.b].is_healthy
               ELSE /\ backends'[ev'.b].error_count = backends[ev'.b].error_count + 1
                    /\ backends'[ev'.b].is_healthy =
                          (backends[ev'.b].is_healthy /\ backends'[ev'.b].error_count < 3)
            /\ \A i \in 1..Len(backends) : i # ev'.b => Unmarked(i)
       ELSE \A i \in 1..Len(backends) : Unmarked(i)]_vars

C6_Witness ==
    /\ ev.op = "probe_response"
    /\ ev.status = 200
    /\ \E i \in 1..Len(backends) : i # ev.b /\ backends[i].error_count = 2
    /\ backends[ev.b].error_count = 0
    /\ \E r \in Clients : req[r].pc = "body" /\ req[r].backend = ev.b

\* C7: one inbound request causes at most two outbound attempts: the first
\* and, after a transport exception, a single retry; a failed retry ends with
\* 502 and no third attempt.
C7_AtMostTwoAttempts ==
    /\ \A r \in Clients : req[r].tries <= 2
    /\ (ev.op = "fail" /\ ev.sent # {}) => req[ev.who].tries = 2

\* C8: a retry after a transport exception on backend X goes to a backend other
\* than X; with no healthy backend other than X there is no retry but a 502.
C8_RetryOnAnotherBackend ==
    ev.op = "fail"
      => /\ ev.sent # {} => ev.b \notin ev.sent
         /\ ev.sels[1].healthy \subseteq {ev.b} => (ev.sent = {} /\ ev.result = 502)

\* C9: backends A (refusing connections) and B (answering 200), cursor 0: the
\* first forwarded request is answered 200 by B and leaves A with one error and
\* healthy; A is unhealthy only after three forwards first directed to A.
FirstDirectedTo(l, b) ==
    Len(SelectSeq(l, LAMBDA e : e.op = "forward" /\ e.sent = {b}))

C9_OneErrorPerForward ==
    (/\ Len(backends) = 2
     /\ \A i \in 1..Len(log) : (log[i].op = "fail" => log[i].b = 1)
                                /\ (log[i].op = "response" => log[i].b = 2))
      => /\ (Len(Results(log)) = 1 /\ req[1].pc = "idle")
               => /\ Results(log) = <<200>>
                  /\ ev.op = "json" /\ ev.b = 2
                  /\ backends[1].error_count = 1
                  /\ backends[1].is_healthy
         /\ ~backends[1].is_healthy => FirstDirectedTo(log, 1) >= 3

\* C10: two backends that both refuse connections, sequential forwards and no
\* probe: the first three requests end with 502 and each marks errors (the k-th
\* leaves the second backend with k errors, the third leaves both backends at
\* the error limit), the fourth and every later one ends with 503.
C10_Three502Then503 ==
    (Len(backends) = 2 /\ \A i \in 1..Len(log) : log[i].op # "response")
      => LET res == Results(log)
         IN  /\ \A k \in 1..Len(res) : res[k] = IF k <= 3 THEN 502 ELSE 503
             /\ (Len(res) >= 3 => \A i \in 1..2 : backends[i].error_count = 3)
             /\ (Len(res) \in 1..3 /\ req[1].pc = "idle"
                   => backends[1].error_count = 3 /\ backends[2].error_count = Len(res))

C10_Witness ==
    /\ Len(backends) = 2
    /\ \A i \in 1..Len(log) : log[i].op # "response"
    /\ Results(log) = <<502, 502, 502, 503, 503>>

\* ------------------------------------------------------------ C11
\* The backends that turn from unhealthy to healthy in the step just taken
Revived == {i \in 1..Len(backends) : ~backends[i].is_healthy /\ backends'[i].is_healthy}

\* The backends the step just taken sent a forwarded request to
SentTo == IF ev'.op \in {"forward", "fail"} THEN ev'.sent ELSE {}

\* C11 as stated: an unhealthy backend turns healthy only in a step in which a
\* health probe of it is answered 200, and no forwarded request is sent to a
\* backend that is unhealthy.
C11_OnlyProbeRevives ==
    [][/\ \A i \in Revived :
             ev'.op = "probe_response" /\ ev'.b = i /\ ev'.status = 200
       /\ \A i \in SentTo : backends'[i].is_healthy]_vars

\* C11: an unhealthy backend turns healthy only in a step in which a 200 answer
\* from it is handled, either the answer to a health probe or the body of a
\* forwarded request that was in flight to it; no forwarded request is sent to
\* a backend that is unhealthy.
C11_OnlySuccessRevives ==
    [][/\ \A i \in Revived :
             /\ ev'.op \in {"probe_response", "json"}
             /\ ev'.b = i
             /\ ev'.status = 200
       /\ \A i \in SentTo : backends'[i].is_healthy]_vars

\* One backend, four outbound requests of which three failed without an answer
\* and the last event is the 200 body of the fourth: the backend was at the
\* error limit when that body arrived, and is healthy now.
C11_Witness ==
    /\ Len(backends) = 1
    /\ ev.op = "json" /\ ev.status = 200 /\ ev.b = 1
    /\ n_out = 4
    /\ Len(backends[1].response_times) = 1
    /\ \A r \in Clients : req[r].pc = "idle"
    /\ \A p \in Probers : hc[p].pending = {}
    /\ backends[1].is_healthy

\* ------------------------------------------------------------ C12
\* The backends returned by k consecutive calls of get_next_backend
RECURSIVE Selections(_, _, _)
Selections(bs, ci, k) ==
    IF k = 0
    THEN {}
    ELSE LET s == get_next_backend(bs, ci)
         IN  {s.backend} \cup Selections(bs, s.index, k - 1)

\* C12: when a probe of a backend is answered 200 the backend has error_count 0,
\* is healthy and is returned by get_next_backend within one rotation over the
\* healthy backends; and a probe-triggering request probes every backend whose
\* last_check is more than 30 s old at that moment.
C12_ProbeRevives ==
    [][/\ (ev'.op = "probe_response" /\ ev'.status = 200)
            => /\ backends'[ev'.b].error_count = 0
               /\ backends'[ev'.b].is_healthy
               /\ ev'.b \in Selections(backends', current_index',
                                       Len(healthy_backends(backends')))
       /\ ev'.op = "health_check_all"
            => \A i \in 1..Len(backends) :
                  now - backends[i].last_check > CheckInterval => i \in ev'.sent]_vars

\* One backend whose first three probes failed without an answer (it was at the
\* error limit) and whose fourth probe, started when its last successful check
\* was more than 30 s old, has just been answered 200.
C12_Witness ==
    /\ Len(backends) = 1
    /\ ev.op = "probe_response" /\ ev.status = 200 /\ ev.b = 1
    /\ n_out = 4
    /\ Len(backends[1].response_times) = 1
    /\ req[1].pc = "idle"
    /\ \A p \in Probers : hc[p].pending = {}
    /\ backends[1].is_healthy
    /\ backends[1].error_count = 0
    /\ backends[1].last_check = now

\* ------------------------------------------------------------ C13
\* C13: the status a probe-triggering request answers with has total_backends
\* equal to the number of registered backends, healthy_backends equal to the
\* number of backends that are healthy, and one entry per backend in
\* registration order carrying that backend's healthy flag and error_count;
\* producing it changes neither a backend nor the cursor nor a request.
C13_StatusReflectsState ==
    [][ev'.op = "hc_return"
         => /\ ev'.reply.total_backends = Len(backends)
            /\ ev'.reply.healthy_backends =
                  Cardinality({i \in 1..Len(backends) : backends[i].is_healthy})
            /\ Len(ev'.reply.backends) = Len(backends)
            /\ \A i \in 1..Len(backends) :
                  /\ ev'.reply.backends[i].url = i
                  /\ ev'.reply.backends[i].healthy = backends[i].is_healthy
                  /\ ev'.reply.backends[i].error_count = backends[i].error_count
            /\ backends' = backends
            /\ current_index' = current_index
            /\ req' = req
            /\ n_out' = n_out]_vars

\* A status answer that reports two backends of which one is unhealthy with
\* three errors and the other healthy with one error
C13_Witness ==
    /\ ev.op = "hc_return"
    /\ ev.reply.total_backends = 2
    /\ ev.reply.healthy_backends = 1
    /\ ~ev.reply.backends[1].healthy /\ ev.reply.backends[1].error_count = 3
    /\ ev.reply.backends[2].healthy /\ ev.reply.backends[2].error_count = 1

\* -------------------------------------------------------------- command lines
\* The base ports and backend counts given on the command line: the allowed
\* window and PortSlack values on either side of it
BasePorts == (PortLow - PortSlack)..(PortHigh + PortSlack)
Counts == (0 - 1)..(MaxAllowedBackends + PortSlack)

\* Faulty variant of the checks: the window ends at 8100 inclusive
validate_inclusive(base_port, num_backends) ==
    IF num_backends > MaxAllowedBackends
    THEN "count"
    ELSE IF base_port < PortLow \/ base_port + num_backends - 1 > PortHigh
         THEN "ports"
         ELSE "ok"

\* The two checks both main() functions make on the parsed arguments, in the
\* order of the code: which one rejects, or "ok"
validate(base_port, num_backends) ==
    IF num_backends > MaxAllowedBackends
    THEN "count"
    ELSE IF base_port < PortLow \/ base_port + num_backends > PortHigh
         THEN "ports"
         ELSE "ok"

\* sys.exit(1) at the named stage of main()
Exit1(c, stage) == [c EXCEPT !.pc = "exit", !.code = 1, !.stage = stage]

\* start_backends.main followed by the spawn loop of start_backends, which
\* starts a worker on base_port + i for every i in range(num_backends)
SupervisorMain ==
    /\ cli.pc = "main"
    /\ cli.prog = "supervisor"
    /\ cli' =
         IF cli.argv_len < 2
         THEN Exit1(cli, "usage")
         ELSE LET base_port == IF cli.argv_len > 3 THEN cli.arg_base ELSE DefaultBasePort
                  num_backends == IF cli.argv_len > 4 THEN cli.arg_n ELSE DefaultNumBackends
                  parsed == [cli EXCEPT !.base_port = base_port,
                                        !.num_backends = num_backends]
                  checked == validate(base_port, num_backends)
              IN  IF checked # "ok"
                  THEN Exit1(parsed, checked)
                  ELSE IF ~cli.dir_ok
                       THEN Exit1(parsed, "dir")
                       ELSE [parsed EXCEPT
                               !.pc = "running", !.stage = "run",
                               !.ports = {base_port + i : i \in 0..(num_backends - 1)}]
    /\ UNCHANGED <<lbvars, sup, worker, gram, srv, api>>

\* load_balancer.main followed by create_load_balancer, which registers a
\* backend on base_port + i for every i in range(num_backends)
BalancerMain ==
    /\ cli.pc = "main"
    /\ cli.prog = "balancer"
    /\ cli' =
         IF cli.argv_len < 4
         THEN Exit1(cli, "usage")
         ELSE LET base_port == cli.arg_base
                  num_backends == cli.arg_n
                  parsed == [cli EXCEPT !.base_port = base_port,
                                        !.num_backends = num_backends]
                  checked == validate(base_port, num_backends)
              IN  IF checked # "ok"
                  THEN Exit1(parsed, checked)
                  ELSE [parsed EXCEPT
                          !.pc = "running", !.stage = "run",
                          !.ports = {base_port + i : i \in 0..(num_backends - 1)}]
    /\ UNCHANGED <<lbvars, sup, worker, gram, srv, api>>

\* A command line about to be run.  argv_len is len(sys.argv); an argument
\* that main() does not read is 0.
CliInit ==
    /\ LbInit(0)
    /\ sup = IdleSup
    /\ worker = IdleWorker
    /\ gram = IdleGram
    /\ srv = IdleSrv
    /\ api = IdleApi
    /\ \E prog \in {"supervisor", "balancer"}, argv_len \in 1..5 :
         LET reads_base == argv_len > 3
             reads_count == IF prog = "supervisor" THEN argv_len > 4 ELSE argv_len > 3
         IN  \E arg_base \in (IF reads_base THEN BasePorts ELSE {0}),
                arg_n \in (IF reads_count THEN Counts ELSE {0}),
                dir_ok \in (IF prog = "supervisor" THEN BOOLEAN ELSE {FALSE}) :
                cli = [IdleCli EXCEPT !.pc = "main", !.prog = prog,
                                      !.argv_len = argv_len, !.arg_base = arg_base,
                                      !.arg_n = arg_n, !.dir_ok = dir_ok]

CliNext ==
    \/ SupervisorMain
    \/ BalancerMain

CliSpec == CliInit /\ [][CliNext]_vars

\* ---------------------------------------------------------------- supervisor
\* BackendManager after main() has validated the arguments.  sup.pc is where
\* the supervisor is: "spawn" (about to call _start_backend for index sup.i),
\* "pause" (in time.sleep(2)), "wait" (in the loop of wait), "term" (first loop
\* of stop_backends, at process sup.i), "reap" (second loop, in
\* process.wait(timeout=5) for process sup.i), "exited".  A child is a record:
\* port offset, whether the process is still running, whether SIGTERM was sent
\* to its group and whether it was sent SIGKILL.
NewChild(i) == [port |-> i, alive |-> TRUE, term |-> FALSE, kill |-> FALSE]

\* _start_backend for index sup.i: Popen returns and the child is appended, or
\* Popen raises, which is caught and only printed; then time.sleep(2) begins
StartBackend(ok) ==
    /\ sup.pc = "spawn"
    /\ sup' = [sup EXCEPT !.pc = "pause", !.timer = SpawnPause,
                          !.processes = IF ok THEN Append(@, NewChild(sup.i)) ELSE @]
    /\ UNCHANGED <<lbvars, cli, worker, gram, srv, api>>

\* time.sleep(2) returned: next index of the loop, or the loop is over and
\* main() calls wait()
PauseOver ==
    /\ sup.pc = "pause"
    /\ sup.timer = 0
    /\ sup' = [sup EXCEPT !.i = @ + 1,
                          !.pc = IF sup.i + 1 < sup.num_backends THEN "spawn" ELSE "wait"]
    /\ UNCHANGED <<lbvars, cli, worker, gram, srv, api>>

\* One second passes for a supervisor that is sleeping or waiting for a child
SecondPasses ==
    /\ sup.timer > 0
    /\ \/ sup.pc = "pause"
       \/ sup.pc = "reap" /\ sup.i <= Len(sup.processes) /\ sup.processes[sup.i].alive
    /\ sup' = [sup EXCEPT !.timer = @ - 1]
    /\ UNCHANGED <<lbvars, cli, worker, gram, srv, api>>

\* wait: every process has exited, the loop breaks and main() returns
WaitAllExited ==
    /\ sup.pc = "wait"
    /\ \A k \in 1..Len(sup.processes) : ~sup.processes[k].alive
    /\ sup' = [sup EXCEPT !.pc = "exited"]
    /\ UNCHANGED <<lbvars, cli, worker, gram, srv, api>>

\* KeyboardInterrupt is raised in the supervisor.  Inside the try of wait it
\* is caught and stop_backends is called; anywhere else nothing catches it and
\* the supervisor ends with the traceback.
Interrupt ==
    /\ sup.pc \in {"spawn", "pause", "wait", "term", "reap"}
    /\ sup.interrupts < MaxInterrupts
    /\ sup' = IF sup.pc = "wait"
              THEN [sup EXCEPT !.interrupts = @ + 1, !.pc = "term", !.i = 1]
              ELSE [sup EXCEPT !.interrupts = @ + 1, !.pc = "exited", !.uncaught = TRUE]
    /\ UNCHANGED <<lbvars, cli, worker, gram, srv, api>>

\* stop_backends, first loop: SIGTERM to the group of process sup.i if poll()
\* says it is running; after the last process the second loop begins
TermChild ==
    /\ sup.pc = "term"
    /\ IF sup.i <= Len(sup.processes)
       THEN sup' = [sup EXCEPT !.i = @ + 1,
                               !.processes[sup.i].term = sup.processes[sup.i].alive]
       ELSE sup' = [sup EXCEPT !.pc = "reap", !.i = 1, !.timer = StopWait]
    /\ UNCHANGED <<lbvars, cli, worker, gram, srv, api>>

\* ReapChild without the kill after the timeout
ReapChildNoKill ==
    /\ sup.pc = "reap"
    /\ IF sup.i <= Len(sup.processes)
       THEN /\ ~sup.processes[sup.i].alive \/ sup.timer = 0
            /\ sup' = [sup EXCEPT !.i = @ + 1, !.timer = StopWait]
       ELSE sup' = [sup EXCEPT !.pc = "exited", !.stopped = TRUE]
    /\ UNCHANGED <<lbvars, cli, worker, gram, srv, api>>

\* stop_backends, second loop: process.wait(timeout=5) returns because process
\* sup.i has exited, or raises TimeoutExpired and the process is sent SIGKILL;
\* after the last process stop_backends returns, and so do wait and main
ReapChild ==
    /\ sup.pc = "reap"
    /\ IF sup.i <= Len(sup.processes)
       THEN /\ ~sup.processes[sup.i].alive \/ sup.timer = 0
            /\ sup' = [sup EXCEPT !.i = @ + 1, !.timer = StopWait,
                                  !.processes[sup.i].kill = sup.processes[sup.i].alive]
       ELSE sup' = [sup EXCEPT !.pc = "exited", !.stopped = TRUE]
    /\ UNCHANGED <<lbvars, cli, worker, gram, srv, api>>

\* A child process ends: on its own, or because of a signal it was sent
ChildExits(k) ==
    /\ k \in 1..Len(sup.processes)
    /\ sup.processes[k].alive
    /\ sup' = [sup EXCEPT !.processes[k].alive = FALSE]
    /\ UNCHANGED <<lbvars, cli, worker, gram, srv, api>>

\* A supervisor about to spawn up to MaxChildren workers
SupInit ==
    /\ LbInit(0)
    /\ cli = IdleCli
    /\ worker = IdleWorker
    /\ gram = IdleGram
    /\ srv = IdleSrv
    /\ api = IdleApi
    /\ \E n \in 1..MaxChildren :
         sup = [IdleSup EXCEPT !.pc = "spawn", !.num_backends = n]

SupNext ==
    \/ \E ok \in BOOLEAN : StartBackend(ok)
    \/ PauseOver
    \/ SecondPasses
    \/ WaitAllExited
    \/ Interrupt
    \/ TermChild
    \/ ReapChild
    \/ \E k \in 1..MaxChildren : ChildExits(k)

SupSpec == SupInit /\ [][SupNext]_vars

\* ---------------------------------------------------- schema-to-grammar compiler
\* A JSON schema is a record: type ("absent" when the key is missing), whether
\* it has "enum" and the enum values, items (<<>> when missing, else <<schema>>),
\* properties (the mapping in source order, as a sequence of key and schema)
\* and whether it carries "oneOf", a key the compiler never reads.
Sch(type) == [NoSchema EXCEPT !.type = type]
Enum(type, values) == [Sch(type) EXCEPT !.has_enum = TRUE, !.enum = values]
ArrayOf(items) == [Sch("array") EXCEPT !.items = <<items>>]
ObjectOf(properties) == [Sch("object") EXCEPT !.properties = properties]
Property(key, schema) == [key |-> key, schema |-> schema]

\* A schema that carries only "oneOf", a schema of top-level type string, and a
\* json_schema.schema that is no dict
OneOfSchema == [NoSchema EXCEPT !.one_of = TRUE]
NotADict == Sch("not_a_dict")

\* prop_schema.get("items", {"type": "string"})
items_of(schema) == IF schema.items = <<>> THEN Sch("string") ELSE schema.items[1]

\* prop_schema.get("type", "string")
type_or_string(schema) == IF schema.type = "absent" THEN "string" ELSE schema.type

\* A value rule as it stands in a production: the name of a rule, or the
\* parenthesised alternation of quoted enum literals (name "(enum)")
Ref(name) == [name |-> name, alt |-> <<>>]
Alternation(enum_values) == [name |-> "(enum)", alt |-> enum_values]

\* item_rule.replace('-', '_'), tabulated for the rule names that
\* generate_property_grammar returns for schemas nested up to two arrays deep
underscored(name) ==
    CASE name = "nested-object" -> "nested_object"
      [] name = "enum-array" -> "enum_array"
      [] name = "array-string" -> "array_string"
      [] name = "array-number" -> "array_number"
      [] name = "array-boolean" -> "array_boolean"
      [] name = "array-nested_object" -> "array_nested_object"
      [] name = "array-enum_array" -> "array_enum_array"
      [] OTHER -> name

\* generate_property_grammar
RECURSIVE generate_property_grammar(_)
generate_property_grammar(prop_schema) ==
    LET prop_type == type_or_string(prop_schema)
    IN  CASE prop_type = "string" ->
               IF prop_schema.has_enum
               THEN Alternation(prop_schema.enum)
               ELSE Ref("string")
          [] prop_type \in {"number", "integer"} -> Ref("number")
          [] prop_type = "boolean" -> Ref("boolean")
          [] prop_type = "array" ->
               LET items_schema == items_of(prop_schema)
               IN  IF items_schema.has_enum
                   THEN Ref("enum-array")
                   ELSE Ref("array-" \o
                            underscored(generate_property_grammar(items_schema).name))
          [] prop_type = "object" -> Ref("nested-object")
          [] OTHER -> Ref("string")

\* A rule definition of the grammar: its name and, for enum-array, the enum
\* values of its alternation; the text of every other rule is fixed by its name
Def(name) == [name |-> name, alt |-> <<>>]
EnumArrayDef(enum_values) == [name |-> "enum-array", alt |-> enum_values]

\* root ::= "{" ws "}" and ws: the grammar of the empty object, also the default
EmptyObjectGrammar ==
    [root |-> [form |-> "empty_object", members |-> <<>>, item |-> Ref("none")],
     defs |-> <<Def("ws")>>]

\* The rules appended after the basic rules, one per property of type array
RECURSIVE array_rules(_)
array_rules(properties) ==
    IF properties = <<>>
    THEN <<>>
    ELSE LET prop_schema == Head(properties).schema
             items_schema == items_of(prop_schema)
             item_type == type_or_string(items_schema)
             rule == IF prop_schema.type # "array" THEN <<>>
                     ELSE IF items_schema.has_enum
                          THEN <<EnumArrayDef(items_schema.enum)>>
                          ELSE IF item_type = "string" THEN <<Def("array-string")>>
                          ELSE IF item_type = "number" THEN <<Def("array-number")>>
                          ELSE <<>>
         IN  rule \o array_rules(Tail(properties))

\* generate_comprehensive_gbnf_grammar for the array branch; a branch that
\* returns nothing falls through to the default grammar
array_grammar(schema) ==
    LET items_schema == items_of(schema)
        item_type == type_or_string(items_schema)
        rooted(item, defs) ==
            [root |-> [form |-> "array", members |-> <<>>, item |-> item],
             defs |-> defs]
    IN  IF item_type = "string"
        THEN IF items_schema.has_enum
             THEN rooted(Alternation(items_schema.enum), <<Def("ws")>>)
             ELSE rooted(Ref("string"), <<Def("ws"), Def("string")>>)
        ELSE IF item_type = "number"
             THEN rooted(Ref("number"), <<Def("ws"), Def("number")>>)
             ELSE EmptyObjectGrammar

\* generate_comprehensive_gbnf_grammar
generate_comprehensive_gbnf_grammar(schema) ==
    IF schema.type = "object"
    THEN IF schema.properties = <<>>
         THEN EmptyObjectGrammar
         ELSE [root |-> [form |-> "object",
                         members |-> [i \in 1..Len(schema.properties) |->
                                        [key |-> schema.properties[i].key,
                                         rule |-> generate_property_grammar(
                                                     schema.properties[i].schema)]],
                         item |-> Ref("none")],
               defs |-> <<Def("ws"), Def("string"), Def("number"), Def("boolean"),
                          Def("nested-object")>>
                        \o array_rules(schema.properties)]
    ELSE IF schema.type = "array"
         THEN array_grammar(schema)
         ELSE EmptyObjectGrammar

\* ------------------------------------------------ the grammar and its language
\* Characters are one-character strings; TAB and LF stand for the two control
\* characters, Q for the double quote and BS for the backslash.  An enum value
\* is one chunk of characters that are neither of these.
Q == "\""
BS == "\\"
ControlChars == {"TAB", "LF"}
Digits == {"0", "7"}

\* Sample lexemes, some in the language of the rule and some not
NumberSamples ==
    {<<"0">>, <<"7">>, <<"-", "7">>, <<"0", "7">>, <<"7", ".", "0">>, <<"7", ".">>,
     <<"-">>}
StringSamples ==
    {<<Q, Q>>, <<Q, "a", Q>>, <<Q, "TAB", Q>>, <<Q, BS, Q>>, <<Q, "a">>}
BooleanSamples == {<<"true">>, <<"false">>, <<"True">>}

\* [0-9]+
IsDigits(s) == s # <<>> /\ \A i \in 1..Len(s) : s[i] \in Digits

\* Where the first "." of s is, 0 when there is none
FirstDot(s) ==
    IF \E i \in 1..Len(s) : s[i] = "."
    THEN CHOOSE i \in 1..Len(s) : s[i] = "." /\ \A j \in 1..(i - 1) : s[j] # "."
    ELSE 0

\* number ::= "-"? [0-9]+ ("." [0-9]+)?
MatchNumberRule(lexeme) ==
    LET unsigned == IF lexeme # <<>> /\ Head(lexeme) = "-" THEN Tail(lexeme) ELSE lexeme
        dot == FirstDot(unsigned)
    IN  IF dot = 0
        THEN IsDigits(unsigned)
        ELSE /\ IsDigits(SubSeq(unsigned, 1, dot - 1))
             /\ IsDigits(SubSeq(unsigned, dot + 1, Len(unsigned)))

\* string ::= "\"" [^"\\]* "\""
MatchStringRule(lexeme) ==
    /\ Len(lexeme) >= 2
    /\ lexeme[1] = Q /\ lexeme[Len(lexeme)] = Q
    /\ \A i \in 2..(Len(lexeme) - 1) : lexeme[i] \notin {Q, BS}

\* boolean ::= "true" | "false"
MatchBooleanRule(lexeme) == lexeme \in {<<"true">>, <<"false">>}

\* "\"" "value" "\"", the literal of an enum value
Quoted(value) == <<Q, value, Q>>

\* The lexemes a scalar rule derives
Lexemes(name) ==
    CASE name = "string" -> {l \in StringSamples : MatchStringRule(l)}
      [] name = "number" -> {l \in NumberSamples : MatchNumberRule(l)}
      [] name = "boolean" -> {l \in BooleanSamples : MatchBooleanRule(l)}
      [] OTHER -> {}

Range(seq) == {seq[i] : i \in 1..Len(seq)}

\* Whether the grammar defines a rule of this name, and the definitions it has
Definitions(name, grammar) ==
    {grammar.defs[i] : i \in {j \in 1..Len(grammar.defs) : grammar.defs[j].name = name}}
Defined(name, grammar) == Definitions(name, grammar) # {}

\* "[" ws (item (ws "," ws item)*)? ws "]": the arrays of no item and of one
Arrays(items) ==
    {[kind |-> "array", lexemes |-> s] : s \in {<<>>} \cup {<<l>> : l \in items}}

\* What a value rule derives under the grammar: nothing when the rule it names
\* is not defined; with several definitions of one name, the language of any
\* of them
DeriveValue(rule, grammar) ==
    CASE rule.name = "(enum)" ->
           {[kind |-> "scalar", lexemes |-> <<Quoted(v)>>] : v \in Range(rule.alt)}
      [] rule.name \in {"string", "number", "boolean"} ->
           IF Defined(rule.name, grammar)
           THEN {[kind |-> "scalar", lexemes |-> <<l>>] : l \in Lexemes(rule.name)}
           ELSE {}
      [] rule.name = "nested-object" ->
           IF Defined(rule.name, grammar)
           THEN {[kind |-> "object", lexemes |-> <<>>]}
           ELSE {}
      [] rule.name = "array-string" ->
           IF Defined(rule.name, grammar) THEN Arrays(Lexemes("string")) ELSE {}
      [] rule.name = "array-number" ->
           IF Defined(rule.name, grammar) THEN Arrays(Lexemes("number")) ELSE {}
      [] rule.name = "enum-array" ->
           UNION {Arrays({Quoted(v) : v \in Range(d.alt)}) :
                    d \in Definitions("enum-array", grammar)}
      [] OTHER -> {}

\* The rule names the grammar refers to
Referenced(grammar) ==
    {"ws"}
      \cup {grammar.root.members[i].rule.name : i \in 1..Len(grammar.root.members)}
      \cup (IF grammar.root.form = "array" THEN {grammar.root.item.name} ELSE {})
      \cup (IF Defined("array-string", grammar) THEN {"string"} ELSE {})
      \cup (IF Defined("array-number", grammar) THEN {"number"} ELSE {})

\* LlamaGrammar.from_string accepts a grammar whose every referenced rule is
\* defined
Accepted(grammar) ==
    \A name \in Referenced(grammar) \ {"(enum)"} : Defined(name, grammar)

\* All sequences whose i-th element is drawn from sets[i]
RECURSIVE Product(_)
Product(sets) ==
    IF sets = <<>>
    THEN {<<>>}
    ELSE {<<h>> \o t : h \in Head(sets), t \in Product(Tail(sets))}

\* The texts derivable from root
Derivable(grammar) ==
    LET root == grammar.root
    IN  CASE root.form = "empty_object" ->
               {[form |-> "object", keys |-> <<>>, values |-> <<>>]}
          [] root.form = "object" ->
               {[form |-> "object",
                 keys |-> [i \in 1..Len(root.members) |-> root.members[i].key],
                 values |-> vs] :
                  vs \in Product([i \in 1..Len(root.members) |->
                                    DeriveValue(root.members[i].rule, grammar)])}
          [] root.form = "array" ->
               {[form |-> "array", keys |-> <<>>, values |-> <<a>>] :
                  a \in IF root.item.name = "(enum)"
                        THEN Arrays({Quoted(v) : v \in Range(root.item.alt)})
                        ELSE IF Defined(root.item.name, grammar)
                             THEN Arrays(Lexemes(root.item.name))
                             ELSE {}}
          [] OTHER -> {}

\* What json.loads takes for a number (lexemes without exponent): no leading
\* zero before further digits
JsonNumber(lexeme) ==
    LET unsigned == IF lexeme # <<>> /\ Head(lexeme) = "-" THEN Tail(lexeme) ELSE lexeme
        dot == FirstDot(unsigned)
        int == IF dot = 0 THEN unsigned ELSE SubSeq(unsigned, 1, dot - 1)
    IN  /\ IsDigits(int)
        /\ Len(int) = 1 \/ int[1] # "0"
        /\ dot # 0 => IsDigits(SubSeq(unsigned, dot + 1, Len(unsigned)))

\* What json.loads takes for a string (lexemes without escapes): no raw control
\* character between the quotes
JsonString(lexeme) ==
    /\ Len(lexeme) >= 2
    /\ lexeme[1] = Q /\ lexeme[Len(lexeme)] = Q
    /\ \A i \in 2..(Len(lexeme) - 1) : lexeme[i] \notin {Q, BS} \cup ControlChars

JsonScalar(lexeme) ==
    \/ JsonNumber(lexeme)
    \/ JsonString(lexeme)
    \/ lexeme \in {<<"true">>, <<"false">>, <<"null">>}

\* json.loads of a derived text: whether it parses, and the value's top-level
\* type, keys and member values
loads_text(text) ==
    [ok |-> \A i \in 1..Len(text.values) :
               \A j \in 1..Len(text.values[i].lexemes) :
                  JsonScalar(text.values[i].lexemes[j]),
     top |-> text.form,
     keys |-> text.keys,
     values |-> text.values]

\* ---------------------------------------------------------- compiler runs
\* The schemas the compiler is run on.  Property schemas and item schemas:
Colours == <<"red", "green">>
ItemSchemas ==
    {Sch("string"), Sch("number"), Sch("integer"), Sch("boolean"),
     Enum("string", Colours)}
PropertySchemas ==
    ItemSchemas \cup {ArrayOf(s) : s \in ItemSchemas} \cup {Sch("object")}

\* The i-th property is named "k" followed by i
Keys == <<"k1", "k2", "k3", "k4">>
ObjectSchemas ==
    {ObjectOf([i \in 1..Len(ps) |-> Property(Keys[i], ps[i])]) :
        ps \in UNION {[1..n -> PropertySchemas] : n \in 0..MaxProps}}
ArraySchemas == {ArrayOf(s) : s \in ItemSchemas}
Schemas == ObjectSchemas \cup ArraySchemas \cup {OneOfSchema, Sch("string")}

\* gram.pc: "schema" (a schema is given), "compiled" (the grammar string is
\* generated), "accepted" or "rejected" (by LlamaGrammar.from_string),
\* "derived" (the engine has produced a text under the grammar), "parsed"
Compile ==
    /\ gram.pc = "schema"
    /\ gram' = [gram EXCEPT !.pc = "compiled",
                            !.grammar = generate_comprehensive_gbnf_grammar(gram.schema)]
    /\ UNCHANGED <<lbvars, cli, sup, worker, srv, api>>

FromString ==
    /\ gram.pc = "compiled"
    /\ gram' = [gram EXCEPT !.pc = IF Accepted(gram.grammar)
                                  THEN "accepted" ELSE "rejected"]
    /\ UNCHANGED <<lbvars, cli, sup, worker, srv, api>>

\* create_completion under the grammar returns one of the derivable texts
Derive(text) ==
    /\ gram.pc = "accepted"
    /\ text \in Derivable(gram.grammar)
    /\ gram' = [gram EXCEPT !.pc = "derived", !.text = text]
    /\ UNCHANGED <<lbvars, cli, sup, worker, srv, api>>

\* json.loads(generated_content)
Parse ==
    /\ gram.pc = "derived"
    /\ gram' = [gram EXCEPT !.pc = "parsed", !.loaded = loads_text(gram.text)]
    /\ UNCHANGED <<lbvars, cli, sup, worker, srv, api>>

GrammarInit ==
    /\ LbInit(0)
    /\ cli = IdleCli
    /\ sup = IdleSup
    /\ worker = IdleWorker
    /\ srv = IdleSrv
    /\ api = IdleApi
    /\ \E schema \in Schemas : gram = [IdleGram EXCEPT !.pc = "schema", !.schema = schema]

GrammarNext ==
    \/ Compile
    \/ FromString
    \/ \E text \in Derivable(gram.grammar) : Derive(text)
    \/ Parse

GrammarSpec == GrammarInit /\ [][GrammarNext]_vars

\* -------------------------------------------------------------------- worker
\* One backend_server process.  Its handlers never await, so a request is
\* handled to its end before the next one is taken; worker.pc is where the
\* request in hand is: "load" (about to call load_model), "constructing"
\* (inside Llama(...)), "generate" (model in hand), "grammar_call" (about to
\* call the engine under the grammar), "fallback" (in the except branch of
\* that call), "idle" (answered).  Model files are numbered; llama_model and
\* current_model_path are 0 for None and "".
Models == 1..MaxModels
Requestable == 1..(MaxModels + 1)

\* The schema of scenario S4 of the specification: a city and a temperature
CitySchema ==
    ObjectOf(<<Property("city", Sch("string")), Property("temp", Sch("number"))>>)

WorkerSchemas == {CitySchema, OneOfSchema, Sch("string"), NotADict}

\* The max_tokens values of requests: the default, and values at and around
\* the ends of the documented range 1..32768
TokenValues == {DefaultMaxTokens, 0 - 1, 0, 1, 32768, 32769}

\* response_format of a request to the structured endpoint: absent, a dict with
\* json_schema.schema, a dict whose json_schema has no schema, any other dict
RfKinds == {"none", "schema", "json_schema_without_schema", "other"}

\* json.dumps and json.loads
json_dumps(v) == [tag |-> "json", s |-> "", v |-> v]
json_loads(t) == [ok |-> t.tag = "json", value |-> t.v]

\* What a call of create_completion does: it raises, or returns a text
EngineTexts == {json_dumps(JObject), json_dumps(JNull), RawText("oops")}
EngineOutcomes == {[raised |-> TRUE, text |-> NoText]}
                    \cup {[raised |-> FALSE, text |-> t] : t \in EngineTexts}

\* HTTPException(status_code)
HttpError(status) == [NoResponse EXCEPT !.status = status]

\* The worker answers and is ready for the next request
Answer(w, response) == [w EXCEPT !.pc = "idle", !.response = response]

\* One call of create_completion as it is recorded in worker.calls
Call(grammar, suffix, max_tokens, out) ==
    [grammar |-> grammar, suffix |-> suffix, max_tokens |-> max_tokens,
     raised |-> out.raised, text |-> out.text]

\* min(request.max_tokens or 1000, 1000), the max_tokens every call of the
\* structured endpoint passes
capped_max_tokens(request) ==
    LET given == IF request.max_tokens # 0 THEN request.max_tokens ELSE StructuredTokenCap
    IN  IF given < StructuredTokenCap THEN given ELSE StructuredTokenCap

\* Receive with the existence check made inside the try, where the handler's
\* "except Exception" turns the 404 into a 500
ReceiveCheckInsideTry(endpoint, model, rf, schema, max_tokens) ==
    /\ worker.pc = "idle"
    /\ endpoint = "chat" => rf = "none"
    /\ (rf = "schema") = (schema # NoSchema)
    /\ LET taken == [worker EXCEPT !.history = Append(@, model),
                                   !.request = [endpoint |-> endpoint, model |-> model,
                                                rf |-> rf, schema |-> schema,
                                                max_tokens |-> max_tokens],
                                   !.grammar = "none", !.compiled = NoGrammar,
                                   !.calls = <<>>,
                                   !.response = NoResponse]
       IN  worker' = IF model \notin Models
                     THEN Answer(taken, HttpError(500))
                     ELSE [taken EXCEPT !.pc = "load"]
    /\ UNCHANGED <<lbvars, cli, sup, gram, srv, api>>

\* A completion endpoint is entered: os.path.exists(model_path) is checked
\* before the try, then the prompt is built
Receive(endpoint, model, rf, schema, max_tokens) ==
    /\ worker.pc = "idle"
    /\ endpoint = "chat" => rf = "none"
    /\ (rf = "schema") = (schema # NoSchema)
    /\ LET taken == [worker EXCEPT !.history = Append(@, model),
                                   !.request = [endpoint |-> endpoint, model |-> model,
                                                rf |-> rf, schema |-> schema,
                                                max_tokens |-> max_tokens],
                                   !.grammar = "none", !.compiled = NoGrammar,
                                   !.calls = <<>>,
                                   !.response = NoResponse]
       IN  worker' = IF model \notin Models
                     THEN Answer(taken, HttpError(404))
                     ELSE [taken EXCEPT !.pc = "load"]
    /\ UNCHANGED <<lbvars, cli, sup, gram, srv, api>>

\* LoadModel without the check for the resident model
LoadModelAlways ==
    /\ worker.pc = "load"
    /\ worker' = [worker EXCEPT !.pc = "constructing",
                                !.resident = @ \cup {worker.request.model}]
    /\ UNCHANGED <<lbvars, cli, sup, gram, srv, api>>

\* load_model: the resident model is used if it has the requested path, else
\* Llama(model_path=...) is called while llama_model still holds the old model
LoadModel ==
    /\ worker.pc = "load"
    /\ LET model_path == worker.request.model
       IN  worker' =
             IF worker.llama_model # 0 /\ worker.current_model_path = model_path
             THEN [worker EXCEPT !.pc = "generate"]
             ELSE [worker EXCEPT !.pc = "constructing",
                                 !.resident = @ \cup {model_path}]
    /\ UNCHANGED <<lbvars, cli, sup, gram, srv, api>>

\* Constructed with load_model giving up the old model before Llama(...) is
\* called, so that a failed load leaves no model
ConstructedDropsOld(ok) ==
    /\ worker.pc = "constructing"
    /\ LET model_path == worker.request.model
       IN  worker' =
             IF ok
             THEN [worker EXCEPT !.pc = "generate", !.llama_model = model_path,
                                 !.current_model_path = model_path,
                                 !.resident = {model_path}, !.loads = @ + 1]
             ELSE Answer([worker EXCEPT !.resident = {}, !.llama_model = 0,
                                        !.load_failed = TRUE],
                         HttpError(500))
    /\ UNCHANGED <<lbvars, cli, sup, gram, srv, api>>

\* Llama(...) returns and llama_model is rebound, which drops the last
\* reference to the old model; or Llama(...) raises, the globals keep their
\* values and the handler answers 500
Constructed(ok) ==
    /\ worker.pc = "constructing"
    /\ LET model_path == worker.request.model
       IN  worker' =
             IF ok
             THEN [worker EXCEPT !.pc = "generate", !.llama_model = model_path,
                                 !.current_model_path = model_path,
                                 !.resident = {model_path}, !.loads = @ + 1]
             ELSE Answer([worker EXCEPT !.resident = @ \ {model_path},
                                        !.load_failed = TRUE],
                         HttpError(500))
    /\ UNCHANGED <<lbvars, cli, sup, gram, srv, api>>

\* The request in hand takes the grammar branch of the structured endpoint
TakesGrammarBranch ==
    /\ worker.request.endpoint = "parse"
    /\ worker.request.rf \in {"schema", "json_schema_without_schema"}

\* The one create_completion call of the chat endpoint, and of the structured
\* endpoint without json_schema: no grammar, the prompt as built
Complete(out) ==
    /\ worker.pc = "generate"
    /\ ~TakesGrammarBranch
    /\ LET max_tokens == IF worker.request.endpoint = "chat"
                         THEN worker.request.max_tokens
                         ELSE capped_max_tokens(worker.request)
           called == [worker EXCEPT
                        !.calls = Append(@, Call(FALSE, FALSE, max_tokens, out))]
       IN  worker' = IF out.raised
                     THEN Answer(called, HttpError(500))
                     ELSE Answer(called, [NoResponse EXCEPT !.status = 200,
                                                            !.content = out.text])
    /\ UNCHANGED <<lbvars, cli, sup, gram, srv, api>>

\* What the steps before the engine call under the grammar can do: the schema
\* lookup raises KeyError, generate_comprehensive_gbnf_grammar raises,
\* LlamaGrammar.from_string raises, or the grammar object is built
BuildOutcomes == {"key_error", "generator_raises", "from_string_raises", "ok"}

\* Structured endpoint, response_format with json_schema: the schema is looked
\* up, compiled to a grammar string and the grammar object is built.  The
\* compiler raises when the schema is no dict (it calls schema.get); whether
\* LlamaGrammar.from_string accepts a grammar is the engine's business.  Each
\* of the three raises inside the outer try only, so the handler answers 500.
BuildGrammar(outcome) ==
    /\ worker.pc = "generate"
    /\ TakesGrammarBranch
    /\ (outcome = "key_error") = (worker.request.rf = "json_schema_without_schema")
    /\ (outcome = "generator_raises") = (worker.request.schema.type = "not_a_dict")
    /\ worker' =
         IF outcome = "ok"
         THEN [worker EXCEPT
                 !.pc = "grammar_call", !.grammar = "ok",
                 !.compiled = generate_comprehensive_gbnf_grammar(worker.request.schema)]
         ELSE Answer([worker EXCEPT !.grammar = IF outcome = "key_error"
                                                 THEN "none" ELSE "failed"],
                     HttpError(500))
    /\ UNCHANGED <<lbvars, cli, sup, gram, srv, api>>

\* The message of a structured answer: parsed and refusal are added when
\* parsed_content is not None
Structured(content, parsed_content) ==
    [status |-> 200, content |-> content,
     has_parsed |-> parsed_content # JNull, parsed |-> parsed_content]

\* {"error": error, "content": generated_content}
ErrorObject(error, generated_content) ==
    [kind |-> "object", error |-> error, content |-> generated_content.s]

\* create_completion under the grammar.  It raises: the except branch is
\* entered.  It returns: the text is parsed, and a text that is no JSON is
\* wrapped in an error object whose serialisation becomes the content.
GrammarCall(out) ==
    /\ worker.pc = "grammar_call"
    /\ LET called == [worker EXCEPT
                        !.calls = Append(@, Call(TRUE, FALSE,
                                                 capped_max_tokens(worker.request), out))]
           loaded == json_loads(out.text)
           wrapped == ErrorObject("Grammar constraint failed", out.text)
       IN  worker' =
             IF out.raised
             THEN [called EXCEPT !.pc = "fallback"]
             ELSE IF loaded.ok
                  THEN Answer(called, Structured(out.text, loaded.value))
                  ELSE Answer(called, Structured(json_dumps(wrapped), wrapped))
    /\ UNCHANGED <<lbvars, cli, sup, gram, srv, api>>

\* The except branch: create_completion without grammar, the prompt followed
\* by "\nRespond with valid JSON only.".  It raises: the outer except answers
\* 500.  It returns: the text is parsed, and a text that is no JSON is wrapped
\* in an error object while the content stays the text.
FallbackCall(out) ==
    /\ worker.pc = "fallback"
    /\ LET called == [worker EXCEPT
                        !.calls = Append(@, Call(FALSE, TRUE,
                                                 capped_max_tokens(worker.request), out))]
           loaded == json_loads(out.text)
           wrapped == ErrorObject("Fallback failed", out.text)
       IN  worker' =
             IF out.raised
             THEN Answer(called, HttpError(500))
             ELSE IF loaded.ok
                  THEN Answer(called, Structured(out.text, loaded.value))
                  ELSE Answer(called, Structured(out.text, wrapped))
    /\ UNCHANGED <<lbvars, cli, sup, gram, srv, api>>

\* A worker that has been started and has loaded no model yet
WorkerInit ==
    /\ LbInit(0)
    /\ cli = IdleCli
    /\ sup = IdleSup
    /\ gram = IdleGram
    /\ srv = IdleSrv
    /\ api = IdleApi
    /\ worker = [IdleWorker EXCEPT !.pc = "idle"]

\* Up to MaxRequests completion requests, one after the other
WorkerNext ==
    \/ \E endpoint \in {"chat", "parse"}, model \in Requestable, rf \in RfKinds :
          /\ Len(worker.history) < MaxRequests
          /\ Receive(endpoint, model, rf,
                     IF rf = "schema" THEN CitySchema ELSE NoSchema, DefaultMaxTokens)
    \/ LoadModel
    \/ \E ok \in BOOLEAN : Constructed(ok)
    \/ \E out \in EngineOutcomes : Complete(out)
    \/ \E outcome \in BuildOutcomes : BuildGrammar(outcome)
    \/ \E out \in EngineOutcomes : GrammarCall(out)
    \/ \E out \in EngineOutcomes : FallbackCall(out)

WorkerSpec == WorkerInit /\ [][WorkerNext]_vars

\* The same worker, with every response_format, schema and max_tokens a request
\* can carry, for up to MaxPipelineRequests requests
PipelineNext ==
    \/ \E endpoint \in {"chat", "parse"}, model \in Requestable, rf \in RfKinds,
          schema \in WorkerSchemas \cup {NoSchema}, max_tokens \in TokenValues :
          /\ Len(worker.history) < MaxPipelineRequests
          /\ Receive(endpoint, model, rf, schema, max_tokens)
    \/ LoadModel
    \/ \E ok \in BOOLEAN : Constructed(ok)
    \/ \E out \in EngineOutcomes : Complete(out)
    \/ \E outcome \in BuildOutcomes : BuildGrammar(outcome)
    \/ \E out \in EngineOutcomes : GrammarCall(out)
    \/ \E out \in EngineOutcomes : FallbackCall(out)

PipelineSpec == WorkerInit /\ [][PipelineNext]_vars

\* ---------------------------------------------------------- threaded server
\* server.py and come_api.py.  The handlers of /generate are coroutines of one
\* event loop, so what a handler does between two awaits is one step; the
\* worker threads of LlamaAPI run beside them.  srv.clock is loop.time() in
\* units of the 0.1 s a handler sleeps; srv.reqs are the requests in order of
\* arrival, srv.tasks is TaskQueue.tasks, srv.threads the worker threads with
\* the task each has in hand.  A result is the kind of text a task produced
\* and the request whose task produced it; srv.delivered lists every result
\* that get_and_remove_response has returned and the request it went to.
Addrs == 1..MaxAddrs

\* client_id with the time left out: f"{id(request)}"
client_id_address_only(addr, clock) == [addr |-> addr, t |-> 0]

\* f"{id(request)}_{asyncio.get_event_loop().time()}"
client_id(addr, clock) == [addr |-> addr, t |-> clock]

\* store_response: pending_responses[client_id] = result, under the lock
store_response(pending, cid, result) ==
    {e \in pending : e.client_id # cid} \cup {[client_id |-> cid, result |-> result]}

\* get_and_remove_response, under the lock: the result and the dict afterwards
get_and_remove_response(pending, cid) ==
    IF \E e \in pending : e.client_id = cid
    THEN LET entry == CHOOSE e \in pending : e.client_id = cid
         IN  [result |-> entry.result, pending |-> pending \ {entry}]
    ELSE [result |-> NoResult, pending |-> pending]

\* The addresses of the request objects that are alive: id() is unique among
\* them only
LiveAddrs ==
    {srv.reqs[n].client_id.addr :
        n \in {m \in 1..Len(srv.reqs) : srv.reqs[m].pc = "polling"}}

\* The addresses request objects have had so far.  Addresses that were never
\* used are alike, so a new object gets an address used before or the lowest
\* of the others.
UsedAddrs == {srv.reqs[n].client_id.addr : n \in 1..Len(srv.reqs)}

\* What _process_task hands to the callback: the generated text, the message
\* for a missing file, the message for a failed load, or the message of the
\* outer except
ResultKinds == {"text", "missing", "load_failed", "error"}

\* result.startswith("エラー") or result.startswith("モデルファイルが見つかりません")
is_error_message(result) == result.kind \in {"error", "missing"}

\* generate_text up to its first await: 404 for a missing model, else the
\* task is pushed and the handler sleeps
ReceiveGenerate(exists, addr) ==
    /\ srv.pc = "on"
    /\ srv.received < MaxSrvRequests
    /\ addr \in Addrs \ LiveAddrs
    /\ \A a \in Addrs \ UsedAddrs : addr <= a
    /\ LET n == srv.received + 1
           cid == client_id(addr, srv.clock)
       IN  srv' =
             IF ~exists
             THEN [srv EXCEPT !.received = n,
                              !.reqs = Append(@, [NewRequest EXCEPT !.pc = "done",
                                                                    !.status = 404,
                                                                    !.outcomes = 1])]
             ELSE [srv EXCEPT !.received = n,
                              !.reqs = Append(@, [NewRequest EXCEPT !.pc = "polling",
                                                                    !.client_id = cid,
                                                                    !.wake = srv.clock + 1]),
                              !.tasks = Append(@, [client_id |-> cid, owner |-> n])]
    /\ UNCHANGED <<lbvars, cli, sup, worker, gram, api>>

\* One round of the waiting loop after asyncio.sleep(0.1) is over, and what
\* follows the loop when it ends
Poll(n) ==
    /\ srv.pc = "on"
    /\ n \in 1..Len(srv.reqs)
    /\ srv.reqs[n].pc = "polling"
    /\ srv.clock >= srv.reqs[n].wake
    /\ LET got == get_and_remove_response(srv.pending_responses, srv.reqs[n].client_id)
           retries == srv.reqs[n].retries + 1
           polled == [srv EXCEPT
                        !.pending_responses = got.pending,
                        !.delivered = IF got.result = NoResult THEN @
                                      ELSE Append(@, [result |-> got.result, to |-> n])]
       IN  srv' =
             IF got.result = NoResult /\ retries < max_retries
             THEN [polled EXCEPT !.reqs[n].retries = retries,
                                 !.reqs[n].wake = srv.clock + 1]
             ELSE [polled EXCEPT
                     !.reqs[n].retries = retries,
                     !.reqs[n].pc = "done",
                     !.reqs[n].outcomes = @ + 1,
                     !.reqs[n].response = got.result,
                     !.reqs[n].status =
                        IF got.result = NoResult \/ is_error_message(got.result)
                        THEN 500 ELSE 200]
    /\ UNCHANGED <<lbvars, cli, sup, worker, gram, api>>

\* _worker_function: a thread without a task takes the oldest one
Pop(w) ==
    /\ srv.pc = "on"
    /\ srv.threads[w] = NoTask
    /\ srv.tasks # <<>>
    /\ srv' = [srv EXCEPT !.threads[w] = Head(srv.tasks), !.tasks = Tail(@)]
    /\ UNCHANGED <<lbvars, cli, sup, worker, gram, api>>

\* _process_task: whatever happens, the callback is called once with a result
ProcessTask(w, kind) ==
    /\ srv.pc = "on"
    /\ srv.threads[w] # NoTask
    /\ LET task == srv.threads[w]
       IN  srv' = [srv EXCEPT
                     !.threads[w] = NoTask,
                     !.pending_responses =
                        store_response(@, task.client_id,
                                       [kind |-> kind, owner |-> task.owner])]
    /\ UNCHANGED <<lbvars, cli, sup, worker, gram, api>>

\* 0.1 s pass
SrvTick ==
    /\ srv.pc = "on"
    /\ srv.clock < MaxSrvClock
    /\ srv' = [srv EXCEPT !.clock = @ + 1]
    /\ UNCHANGED <<lbvars, cli, sup, worker, gram, api>>

\* initialize_server has run: api.start(num_workers)
SrvInit ==
    /\ LbInit(0)
    /\ cli = IdleCli
    /\ sup = IdleSup
    /\ worker = IdleWorker
    /\ gram = IdleGram
    /\ srv = [IdleSrv EXCEPT !.pc = "on", !.threads = [w \in 1..MaxWorkers |-> NoTask]]
    /\ api = IdleApi

SrvNext ==
    \/ \E exists \in BOOLEAN, addr \in Addrs : ReceiveGenerate(exists, addr)
    \/ \E n \in 1..MaxSrvRequests : Poll(n)
    \/ \E w \in 1..MaxWorkers : Pop(w)
    \/ \E w \in 1..MaxWorkers, kind \in {"text", "error"} : ProcessTask(w, kind)
    \/ SrvTick

SrvSpec == SrvInit /\ [][SrvNext]_vars

\* ------------------------------------------------------- come_api.LlamaAPI
\* api.tasks[t] is the t-th task made by generate(): its model_path, whether
\* the API was running when it was submitted, how many times a thread got it
\* from the queue, and what its callback was called with, in order.
\* api.task_queue holds the numbers of the queued tasks.  A thread is at the
\* in task_queue.pop() ("pop"), before the with
\* block of _process_task ("process"), in model.create_completion
\* ("completing") or has left the loop ("exited").  A model handle is written
\* as the path it was loaded from.

\* Faulty variant of callback: the result is handed over twice
callback_twice(tasks, t, kind) ==
    [tasks EXCEPT ![t].results = Append(Append(@, kind), kind)]

\* task.callback(message or text)
callback(tasks, t, kind) ==
    [tasks EXCEPT ![t].results = Append(@, kind)]

\* The model paths named by the tasks so far.  Paths that were never named
\* are alike, so a task names a path named before or the lowest of the others.
UsedPaths == {api.tasks[t].model_path : t \in 1..Len(api.tasks)}

\* LlamaAPI.generate: a Task is made and pushed, whether running or not
Generate(model_path) ==
    /\ api.pc = "on"
    /\ Len(api.tasks) < MaxTasks
    /\ \A p \in Models \ UsedPaths : model_path <= p
    /\ api' = [api EXCEPT
                 !.tasks = Append(@, [model_path |-> model_path,
                                      while_running |-> api.running,
                                      taken |-> 0, results |-> <<>>]),
                 !.task_queue = Append(@, Len(api.tasks) + 1)]
    /\ UNCHANGED <<lbvars, cli, sup, worker, gram, srv>>

\* _worker_function, "while self.running": the thread goes on to
\* task_queue.pop() or leaves the loop
loop_top(running) == IF running THEN "pop" ELSE "exited"

\* task_queue.pop(): tasks.get(block=True, timeout=0.1) returns the oldest task
PopTask(w) ==
    /\ w <= Len(api.worker_threads)
    /\ api.worker_threads[w].pc = "pop"
    /\ api.task_queue # <<>>
    /\ LET t == Head(api.task_queue)
       IN  api' = [api EXCEPT !.task_queue = Tail(@),
                              !.tasks[t].taken = @ + 1,
                              !.worker_threads[w] = [pc |-> "process", task |-> t,
                                                     model |-> 0]]
    /\ UNCHANGED <<lbvars, cli, sup, worker, gram, srv>>

\* task_queue.pop() on an empty queue: queue.Empty after 0.1 s, None, sleep,
\* continue, and the test of the loop (while running the thread is in pop()
\* again and nothing has changed)
PopTimesOut(w) ==
    /\ w <= Len(api.worker_threads)
    /\ api.worker_threads[w].pc = "pop"
    /\ api.task_queue = <<>>
    /\ ~api.running
    /\ api' = [api EXCEPT !.worker_threads[w].pc = loop_top(api.running)]
    /\ UNCHANGED <<lbvars, cli, sup, worker, gram, srv>>

\* _process_task, the block under models_lock: the cached handle; or the
\* callback with the message for a missing file and return; or Llama(...)
\* and the handle is cached; or Llama(...) raises, the callback with the
\* message for a failed load and return.  The lock is released at the end of
\* the block, before create_completion.
UnderModelsLock(w, exists, loads_ok) ==
    /\ w <= Len(api.worker_threads)
    /\ api.worker_threads[w].pc = "process"
    /\ LET t == api.worker_threads[w].task
           model_path == api.tasks[t].model_path
           returned(kind) ==
               [api EXCEPT !.tasks = callback(@, t, kind),
                           !.worker_threads[w] = [pc |-> loop_top(api.running),
                                                  task |-> 0, model |-> 0]]
       IN  api' =
             IF model_path \in api.loaded_models
             THEN [api EXCEPT !.worker_threads[w].pc = "completing",
                              !.worker_threads[w].model = model_path]
             ELSE IF ~exists
             THEN returned("missing")
             ELSE IF loads_ok
             THEN [api EXCEPT !.loaded_models = @ \cup {model_path},
                              !.loads[model_path] = @ + 1,
                              !.worker_threads[w].pc = "completing",
                              !.worker_threads[w].model = model_path]
             ELSE returned("load_failed")
    /\ UNCHANGED <<lbvars, cli, sup, worker, gram, srv>>

\* model.create_completion returns and the callback gets the text, or it
\* raises and the outer except calls the callback with the error message;
\* then task_done() and the test of the loop
CompletionEnds(w, ok) ==
    /\ w <= Len(api.worker_threads)
    /\ api.worker_threads[w].pc = "completing"
    /\ LET t == api.worker_threads[w].task
       IN  api' = [api EXCEPT
                     !.tasks = callback(@, t, IF ok THEN "text" ELSE "error"),
                     !.worker_threads[w] = [pc |-> loop_top(api.running), task |-> 0,
                                            model |-> 0]]
    /\ UNCHANGED <<lbvars, cli, sup, worker, gram, srv>>

\* LlamaAPI.shutdown up to the joins: stop_flag and running = False
Shutdown ==
    /\ api.pc = "on"
    /\ api.running
    /\ api' = [api EXCEPT !.running = FALSE]
    /\ UNCHANGED <<lbvars, cli, sup, worker, gram, srv>>

\* LlamaAPI.shutdown after the joins: every thread has ended, the list of
\* threads and the cache are cleared
Joined ==
    /\ api.pc = "on"
    /\ ~api.running
    /\ api.worker_threads # <<>>
    /\ \A w \in 1..Len(api.worker_threads) : api.worker_threads[w].pc = "exited"
    /\ api' = [api EXCEPT !.worker_threads = <<>>, !.loaded_models = {}]
    /\ UNCHANGED <<lbvars, cli, sup, worker, gram, srv>>

\* A step of worker thread w
ThreadStep(w) ==
    \/ PopTask(w)
    \/ PopTimesOut(w)
    \/ \E exists, loads_ok \in BOOLEAN : UnderModelsLock(w, exists, loads_ok)
    \/ \E ok \in BOOLEAN : CompletionEnds(w, ok)

\* LlamaAPI() and start(num_workers) have run
ApiInit ==
    /\ LbInit(0)
    /\ cli = IdleCli
    /\ sup = IdleSup
    /\ worker = IdleWorker
    /\ gram = IdleGram
    /\ srv = IdleSrv
    /\ \E num_workers \in 1..MaxThreads :
          api = [IdleApi EXCEPT
                   !.pc = "on", !.running = TRUE,
                   !.worker_threads = [w \in 1..num_workers |->
                                         [pc |-> loop_top(TRUE), task |-> 0,
                                          model |-> 0]],
                   !.loads = [p \in Models |-> 0]]

ApiNext ==
    \/ \E model_path \in Models : Generate(model_path)
    \/ \E w \in 1..MaxThreads : PopTask(w)
    \/ \E w \in 1..MaxThreads : PopTimesOut(w)
    \/ \E w \in 1..MaxThreads, exists, loads_ok \in BOOLEAN :
          UnderModelsLock(w, exists, loads_ok)
    \/ \E w \in 1..MaxThreads, ok \in BOOLEAN : CompletionEnds(w, ok)
    \/ Shutdown
    \/ Joined

\* The threads are operating-system threads: each one that can take a step
\* takes it in the end
ApiSpec ==
    /\ ApiInit
    /\ [][ApiNext]_vars
    /\ \A w \in 1..MaxThreads : WF_vars(ThreadStep(w))

\* ------------------------------------------------------------ C14
\* C14: a command line whose backend count is over 30, whose base port is
\* under 8070 or whose base port plus count is over 8100 ends with exit code 1
\* and has used no port; a command line that passed the checks uses exactly the
\* ports base_port .. base_port + count - 1, all of them in 8070..8099.
C14_PortsValidated ==
    cli.stage \in {"count", "ports", "dir", "run"}
      => LET n == cli.num_backends
             base == cli.base_port
         IN  /\ (n > 30 \/ base < 8070 \/ base + n > 8100)
                   => cli.pc = "exit" /\ cli.code = 1 /\ cli.ports = {}
             /\ cli.pc = "running"
                   => /\ cli.ports = {q \in 8070..8099 : base <= q /\ q < base + n}
                      /\ Cardinality(cli.ports) = IF n > 0 THEN n ELSE 0

\* A run of the balancer that registered the full window of 30 backends
C14_Witness ==
    /\ cli.prog = "balancer"
    /\ cli.pc = "running"
    /\ cli.ports = 8070..8099

\* ------------------------------------------------------------ C15
\* C15: once the first loop of stop_backends is over, every child was sent
\* SIGTERM or had already exited; a child is sent SIGKILL only by the wait for
\* it, when the 5 s have run out and it is still running; the wait for a child
\* ends only with the child exited or sent SIGKILL; and when stop_backends has
\* returned every spawned child has exited or been sent SIGKILL.
C15_StopPath ==
    [][/\ (sup'.pc = "reap" \/ sup'.stopped)
            => \A k \in 1..Len(sup'.processes) :
                  sup'.processes[k].term \/ ~sup'.processes[k].alive
       /\ \A k \in 1..Len(sup.processes) :
             (sup'.processes[k].kill /\ ~sup.processes[k].kill)
                => /\ sup.pc = "reap" /\ sup.i = k
                   /\ sup.timer = 0
                   /\ sup.processes[k].alive
       /\ (sup.pc = "reap" /\ sup'.pc = "reap" /\ sup'.i = sup.i + 1)
            => ~sup'.processes[sup.i].alive \/ sup'.processes[sup.i].kill
       /\ sup'.stopped
            => \A k \in 1..Len(sup'.processes) :
                  ~sup'.processes[k].alive \/ sup'.processes[k].kill]_vars

\* stop_backends has returned after stopping two children: one exited after
\* SIGTERM, the other was still running after 5 s and was sent SIGKILL
C15_Witness ==
    /\ sup.stopped
    /\ Len(sup.processes) = 2
    /\ \E k \in 1..2 : /\ sup.processes[k].term
                       /\ ~sup.processes[k].alive
                       /\ ~sup.processes[k].kill
    /\ \E k \in 1..2 : sup.processes[k].term /\ sup.processes[k].kill

\* ------------------------------------------------------------ C16
\* C16: when the supervisor has exited after an interrupt that came once a
\* worker was spawned, stop_backends has run to its end and no spawned worker
\* is running without having been sent SIGKILL.
C16_InterruptStopsWorkers ==
    (sup.pc = "exited" /\ sup.interrupts > 0 /\ Len(sup.processes) >= 1)
      => /\ sup.stopped
         /\ \A k \in 1..Len(sup.processes) :
               ~sup.processes[k].alive \/ sup.processes[k].kill

\* ------------------------------------------------------------ C17
\* C17: the worker never holds more than one model
C17_OneModelResident == Cardinality(worker.resident) <= 1

\* ------------------------------------------------------------ C18
\* The number of places of h whose entry differs from the one before it, the
\* first place counting
Transitions(h) == Cardinality({i \in 1..Len(h) : i = 1 \/ h[i] # h[i - 1]})

\* The requests of h that name a model file that exists
Existing(h) == SelectSeq(h, LAMBDA m : m \in Models)

\* C18 as stated: when every load so far succeeded and the worker has answered,
\* the number of loads equals the number of requests whose model differs from
\* the model of the request before.
C18_LoadsAreTransitions ==
    (worker.pc = "idle" /\ ~worker.load_failed)
      => worker.loads = Transitions(worker.history)

\* C18: when every load so far succeeded and the worker has answered, the
\* number of loads equals the number of requests naming an existing model whose
\* model differs from the model of the last request before it that named an
\* existing model; requests naming no existing model are answered 404 and
\* count neither as a load nor as a change of model.
C18_LoadsAreTransitionsOfExisting ==
    (worker.pc = "idle" /\ ~worker.load_failed)
      => worker.loads = Transitions(Existing(worker.history))

\* Four requests answered: model 1 twice, a model that does not exist, model 1
\* again, the last one on the structured endpoint; one load was made
C18_Witness ==
    /\ worker.pc = "idle"
    /\ ~worker.load_failed
    /\ worker.history = <<1, 1, MaxModels + 1, 1>>
    /\ worker.request.endpoint = "parse"
    /\ worker.response.status = 200
    /\ worker.loads = 1

\* ------------------------------------------------------------ C19
\* C19: the step that takes a request naming a model that does not exist
\* answers it with 404 at once, with no engine call made, and leaves
\* llama_model, current_model_path, the models held and the number of loads
\* as they were.
C19_MissingModelIs404 ==
    [][(/\ Len(worker'.history) = Len(worker.history) + 1
        /\ worker'.request.model \notin Models)
         => /\ worker'.pc = "idle"
            /\ worker'.response.status = 404
            /\ worker'.calls = <<>>
            /\ worker'.llama_model = worker.llama_model
            /\ worker'.current_model_path = worker.current_model_path
            /\ worker'.resident = worker.resident
            /\ worker'.loads = worker.loads]_vars

\* The structured endpoint has answered 404 while model 1 is resident
C19_Witness ==
    /\ worker.pc = "idle"
    /\ worker.request.endpoint = "parse"
    /\ worker.request.model \notin Models
    /\ worker.response.status = 404
    /\ worker.llama_model = 1
    /\ worker.current_model_path = 1

\* ------------------------------------------------------------ C20
\* C20: a request to the structured endpoint with json_schema.schema whose
\* grammar object could not be built, or whose engine call under the grammar
\* raised, is answered 200 after exactly one engine call without grammar, made
\* with the instruction suffix, with an error object as parsed when the text
\* is no JSON; and no request makes more than two engine calls.
C20_FallbackAfterGrammarFailure ==
    /\ Len(worker.calls) <= 2
    /\ (/\ worker.pc = "idle"
        /\ worker.request.endpoint = "parse"
        /\ worker.request.rf = "schema"
        /\ \/ worker.grammar = "failed"
           \/ \E i \in 1..Len(worker.calls) :
                 worker.calls[i].grammar /\ worker.calls[i].raised)
         => /\ worker.response.status = 200
            /\ Cardinality({i \in 1..Len(worker.calls) : ~worker.calls[i].grammar}) = 1
            /\ \A i \in 1..Len(worker.calls) :
                  ~worker.calls[i].grammar => worker.calls[i].suffix
            /\ ~json_loads(worker.response.content).ok
                  => /\ worker.response.has_parsed
                     /\ worker.response.parsed.error # ""
                     /\ worker.response.parsed.content = worker.response.content.s

\* ------------------------------------------------------------ C21
\* C21: a request to the structured endpoint whose engine call under the
\* grammar returned a text that is no JSON is answered 200 after one more
\* engine call, made without grammar and with the instruction suffix; parsed is
\* an error object only if the text of that second call is no JSON either.
C21_FallbackAfterParseFailure ==
    (/\ worker.pc = "idle"
     /\ worker.request.endpoint = "parse"
     /\ Len(worker.calls) >= 1
     /\ worker.calls[1].grammar
     /\ ~worker.calls[1].raised
     /\ ~json_loads(worker.calls[1].text).ok)
      => /\ worker.response.status = 200
         /\ Len(worker.calls) = 2
         /\ ~worker.calls[2].grammar /\ worker.calls[2].suffix
         /\ (worker.response.parsed.error # "")
               = ~json_loads(worker.calls[2].text).ok

\* ------------------------------------------------------------ C22
\* C22: a request to the structured endpoint whose schema is outside the
\* supported subset ("oneOf", or a top-level type that is neither object nor
\* array) is answered 200 after a schema error of the compiler: the engine is
\* called once, without grammar and with the instruction suffix.
Unsupported(schema) ==
    \/ schema.one_of
    \/ schema.type \notin {"object", "array", "not_a_dict"}

C22_UnsupportedSchemaFallsBack ==
    (/\ worker.pc = "idle"
     /\ worker.request.endpoint = "parse"
     /\ worker.request.rf = "schema"
     /\ Unsupported(worker.request.schema)
     /\ worker.response.status # 404
     /\ ~worker.load_failed
     /\ worker.grammar # "failed")
      => /\ worker.response.status = 200
         /\ Len(worker.calls) = 1
         /\ ~worker.calls[1].grammar
         /\ worker.calls[1].suffix

\* ------------------------------------------------------------ C23
\* C23: in every 200 answer of the structured endpoint that carries parsed (and
\* with it refusal = null), the content is JSON text and parsed is the value
\* that parsing the content gives, whichever engine call produced the text.
C23_ParsedIsParseOfContent ==
    (/\ worker.pc = "idle"
     /\ worker.request.endpoint = "parse"
     /\ worker.response.status = 200
     /\ worker.response.has_parsed)
      => /\ json_loads(worker.response.content).ok
         /\ json_loads(worker.response.content).value = worker.response.parsed

\* ------------------------------------------------------------ C24
\* C24: a request whose max_tokens is outside 1..32768 is refused when it is
\* received, with no model load and no engine call; and no engine call is ever
\* made with a max_tokens outside 1..32768.
C24_MaxTokensInRange ==
    /\ \A i \in 1..Len(worker.calls) : worker.calls[i].max_tokens \in 1..32768
    /\ (/\ worker.request.endpoint # "none"
        /\ worker.request.max_tokens \notin 1..32768)
         => /\ worker.pc = "idle"
            /\ worker.response.status # 200
            /\ worker.loads = 0
            /\ worker.calls = <<>>

\* ------------------------------------------------------------ C25
\* C25: the grammar generated for an object schema defines each of the helper
\* rules array-string, array-number and enum-array at most once.
C25_HelpersDefinedOnce ==
    (gram.pc \notin {"off", "schema"} /\ gram.schema.type = "object")
      => \A name \in {"array-string", "array-number", "enum-array"} :
            Cardinality({j \in 1..Len(gram.grammar.defs) :
                           gram.grammar.defs[j].name = name}) <= 1

\* ------------------------------------------------------------ C26
\* C26: for a schema of the supported subset, a text derived from the root of
\* the generated grammar parses as JSON, its value has the schema's top-level
\* type, an object has exactly the declared keys in the declared order, and
\* every enum leaf holds one of its declared values.
InSubset(schema) ==
    LET leaf(s) == /\ s.type \in {"string", "number", "integer", "boolean"}
                   /\ s.has_enum => s.type = "string" /\ s.enum # <<>>
                   /\ ~s.one_of
        value(s) == \/ leaf(s)
                    \/ s.type = "array" /\ s.items # <<>> /\ leaf(s.items[1])
                    \/ s.type = "object" /\ s.properties = <<>>
    IN  /\ ~schema.one_of
        /\ \/ /\ schema.type = "object"
              /\ \A i \in 1..Len(schema.properties) : value(schema.properties[i].schema)
           \/ /\ schema.type = "array"
              /\ schema.items # <<>> /\ leaf(schema.items[1])

EnumLeafOk(schema, value) ==
    LET enumerated == IF schema.type = "array" THEN items_of(schema) ELSE schema
    IN  enumerated.has_enum
          => \A j \in 1..Len(value.lexemes) :
                value.lexemes[j] \in {Quoted(v) : v \in Range(enumerated.enum)}

C26_DerivedTextsFitSchema ==
    (gram.pc = "parsed" /\ InSubset(gram.schema))
      => /\ gram.loaded.ok
         /\ gram.loaded.top = gram.schema.type
         /\ gram.schema.type = "object"
              => /\ gram.loaded.keys =
                      [i \in 1..Len(gram.schema.properties) |->
                         gram.schema.properties[i].key]
                 /\ \A i \in 1..Len(gram.schema.properties) :
                       EnumLeafOk(gram.schema.properties[i].schema,
                                  gram.loaded.values[i])
         /\ gram.schema.type = "array"
              => EnumLeafOk(gram.schema, gram.loaded.values[1])

\* ------------------------------------------------------------ C27
\* C27: of the /generate requests the threaded server has received, each one
\* that has ended has had exactly one outcome and each other one none; a 200
\* answer carries the result of the request's own task; every result that was
\* handed out went to the request with the client_id it was stored under,
\* which is the request whose task produced it; and no result was handed out
\* twice.
C27_OwnResultOnce ==
    /\ \A n \in 1..Len(srv.reqs) :
          /\ srv.reqs[n].outcomes = IF srv.reqs[n].pc = "done" THEN 1 ELSE 0
          /\ srv.reqs[n].status = 200 => srv.reqs[n].response.owner = n
    /\ \A i \in 1..Len(srv.delivered) :
          /\ srv.delivered[i].result.owner = srv.delivered[i].to
          /\ \A j \in 1..Len(srv.delivered) :
                srv.delivered[i].result.owner = srv.delivered[j].result.owner => i = j
    /\ \A n, m \in 1..Len(srv.reqs) :
          (srv.reqs[n].client_id = srv.reqs[m].client_id /\ srv.reqs[n].client_id # NoClient)
            => n = m

\* Two requests that were in hand at the same time have both been answered 200
C27_Witness ==
    /\ Len(srv.reqs) >= 2
    /\ srv.reqs[1].status = 200 /\ srv.reqs[2].status = 200
    /\ srv.reqs[1].client_id.t = srv.reqs[2].client_id.t

\* ------------------------------------------------------------ C28
\* C28: every step raises current_index by the number of calls of
\* get_next_backend it made that returned a backend, by 1 for each, and no
\* step resets or reduces it.
C28_CursorOnlyAdvances ==
    [][current_index' =
         current_index
           + Cardinality({k \in 1..Len(ev'.sels) : ev'.sels[k].b # 0})]_vars

\* ------------------------------------------------------------ C29
\* C29: a probe-triggering request (GET /, /status, /v1) starts a probe for
\* exactly the backends whose last_check is more than 30 s before the call, and
\* answers only when none of its probes is outstanding; a step of a forwarded
\* request starts no probe and touches no probe-triggering request.  (Steps
\* in which only time passes are left aside.)
C29_ProbesExactlyTheStale ==
    [][now' = now
         => /\ ev'.op = "health_check_all"
                 => /\ ev'.sent = {i \in 1..Len(backends) :
                                     now - backends[i].last_check > 30}
                    /\ hc'[ev'.who].pending = ev'.sent
            /\ ev'.op = "hc_return"
                 => /\ hc[ev'.who].pc = "gather"
                    /\ hc[ev'.who].pending = {}
            /\ ev'.op \notin {"health_check_all", "probe_response", "probe_fail",
                              "hc_return"}
                 => hc' = hc]_vars

\* Of two backends the first was probed successfully just now, so the next
\* probe-triggering request probes the second only
C29_Witness ==
    /\ Len(backends) = 2
    /\ ev.op = "health_check_all"
    /\ ev.sent = {2}
    /\ backends[1].last_check = now

\* ------------------------------------------------------------ C30
\* C30: when a probe of a backend ends, with a 200, with another status or
\* without an answer, the backend's last_check is the time at which the probe
\* was issued, so that the backend is not probed again within 30 s.
C30_LastCheckIsLastProbe ==
    [][(now' = now /\ ev'.op \in {"probe_response", "probe_fail"})
          => /\ backends'[ev'.b].last_check = hc[ev'.who].start
             /\ now - backends'[ev'.b].last_check <= 30]_vars

\* ------------------------------------------------------------ C31
\* C31: when the outbound attempt of a forwarded request runs into the 120 s
\* deadline, the balancer makes no further outbound attempt for that request.
C31_NoRetryOnTimeout ==
    [][(now' = now /\ ev'.op = "timeout")
          => /\ ev'.sent = {}
             /\ n_out' = n_out
             /\ req'[ev'.who].pc = "idle"]_vars

\* ------------------------------------------------------------ C32
\* C32: once start_backends has returned, the process list holds num_backends
\* workers and its i-th entry (counted from 0) is the worker that was started
\* on port base_port + i, also when a spawn attempt has failed.
C32_OneWorkerPerPort ==
    sup.pc \in {"wait", "term", "reap"}
      => /\ Len(sup.processes) = sup.num_backends
         /\ \A k \in 1..Len(sup.processes) : sup.processes[k].port = k - 1

\* ------------------------------------------------------------ C33
\* C33: a load that raises is answered 500 and leaves llama_model and
\* current_model_path as they were; on the plain endpoint, and on the
\* structured endpoint without json_schema, an engine call that raises is
\* answered 500; and a handle that is not None is always the model loaded
\* from current_model_path.
C33_FailuresLeaveTheModel ==
    [][/\ (worker.pc = "constructing" /\ worker'.pc = "idle")
            => /\ worker'.response.status = 500
               /\ worker'.llama_model = worker.llama_model
               /\ worker'.current_model_path = worker.current_model_path
       /\ (/\ worker.pc = "generate" /\ ~TakesGrammarBranch
           /\ worker'.calls # <<>>
           /\ worker'.calls[Len(worker'.calls)].raised)
            => worker'.pc = "idle" /\ worker'.response.status = 500
       /\ worker'.llama_model # 0
            => worker'.llama_model = worker'.current_model_path]_vars

\* The load of a second model has failed and was answered 500 while the first
\* model is still in hand
C33_Witness ==
    /\ worker.pc = "idle"
    /\ worker.response.status = 500
    /\ worker.calls = <<>>
    /\ worker.load_failed
    /\ worker.llama_model # 0
    /\ worker.request.model \in Models
    /\ worker.request.model # worker.llama_model

\* ------------------------------------------------------------ C34
\* C34: the grammar generated for a top-level array schema whose items are
\* strings (with or without enum), numbers, integers or booleans has a root
\* rule of the array form "[" ws ... ws "]", never of the object form.
C34_ArrayRootIsArray ==
    (/\ gram.pc \notin {"off", "schema"}
     /\ gram.schema.type = "array"
     /\ InSubset(gram.schema))
      => gram.grammar.root.form = "array"

\* ------------------------------------------------------------ C36
\* C36: in the grammar generated for an object schema of the supported subset,
\* every rule name that the root rule references is defined exactly once, and
\* two properties that reference the same rule name need the same definition.
C36_ReferencedDefinedOnce ==
    (/\ gram.pc \notin {"off", "schema"}
     /\ gram.schema.type = "object"
     /\ InSubset(gram.schema))
      => LET members == gram.grammar.root.members
             properties == gram.schema.properties
         IN  /\ \A i \in 1..Len(members) :
                   members[i].rule.name # "(enum)"
                     => Cardinality({j \in 1..Len(gram.grammar.defs) :
                                       gram.grammar.defs[j].name = members[i].rule.name}) = 1
             /\ \A i, j \in 1..Len(members) :
                   members[i].rule.name = members[j].rule.name
                     => array_rules(<<properties[i]>>) = array_rules(<<properties[j]>>)

C39_NothingLeftPending ==
    /\ \A n \in 1..Len(srv.reqs) :
          (srv.reqs[n].pc = "done" /\ srv.reqs[n].status # 404)
            => ~\E e \in srv.pending_responses :
                   /\ e.client_id = srv.reqs[n].client_id
                   /\ e.result.owner = n
    /\ (/\ \A n \in 1..Len(srv.reqs) : srv.reqs[n].pc = "done"
        /\ srv.tasks = <<>>
        /\ \A w \in 1..MaxWorkers : srv.threads[w] = NoTask)
         => srv.pending_responses = {}

C38_OneCompletionPerHandle ==
    /\ \A v, w \in 1..Len(api.worker_threads) :
          (/\ v # w
           /\ api.worker_threads[v].pc = "completing"
           /\ api.worker_threads[w].pc = "completing")
            => api.worker_threads[v].model # api.worker_threads[w].model
    /\ api.pc = "on" => \A p \in Models : api.loads[p] <= 1
====
